---------------------------- MODULE Spec2Model ----------------------------
(***************************************************************************)
(* A model of the oligonucleotide designer of rajiv256/robin.              *)
(*                                                                         *)
(*   webapp/app.py, backend/core/*.py : the sequence repository, the       *)
(*       thermodynamic heuristics, the validator and design_strand         *)
(*   backend/app.py : the Monte-Carlo search generate_optimized_strand_sets*)
(*       and its penalty score calculate_strand_set_score                  *)
(*                                                                         *)
(* DNA strings are sequences of one-character strings.  A Python Optional  *)
(* is a sequence of length at most one: <<>> is None, <<x>> is x.          *)
(* Energies are integers: webapp energies in 0.1 kcal/mol, the primer3     *)
(* energies of backend/app.py in cal/mol (0.001 kcal/mol), scores and      *)
(* penalties in 0.001 points.  random.choice / random.shuffle are a        *)
(* nondeterministic choice over every outcome they can produce.            *)
(***************************************************************************)
EXTENDS Integers, Sequences, FiniteSets, TLC

VARIABLES
    repo_call,          \* the pending call of get_orthogonal_sequence (Optional)
    repo_ret,           \* what get_orthogonal_sequence returned (Optional)
    design_req,         \* the pending design_strand request (Optional)
    design_result,      \* the DesignResult returned (Optional)
    domain_cache,       \* backend/app.py domain_cache: base name -> length
    strands,            \* backend/app.py strands: strand id -> {name, domains}
    oligos,             \* the Redis index oligo:length:<n>: length -> sequences
    thal,               \* which table primer3's thermodynamic alignment follows
    opt_req,            \* the request of generate_optimized_strand_sets (Optional)
    generation,         \* the loop variable of generate_optimized_strand_sets
    valid_strand_sets,  \* the trials retained so far
    opt_response,       \* the response of generate_optimized_strand_sets (Optional)
    score_call,         \* the arguments of calculate_strand_set_score (Optional)
    score_ret,          \* what calculate_strand_set_score returned (Optional)
    fn_call,            \* the pending call of a helper function (Optional); in
                        \* SpecStore, per request thread, the add_domain
                        \* request that passed its checks and has not written
    fn_ret              \* what the helper function returned (Optional); in
                        \* SpecStore the response the last step sent

repo_vars == <<repo_call, repo_ret>>
design_vars == <<design_req, design_result>>
store_vars == <<domain_cache, strands, oligos, thal>>
opt_vars == <<opt_req, generation, valid_strand_sets, opt_response>>
score_vars == <<score_call, score_ret>>
fn_vars == <<fn_call, fn_ret>>

vars == <<repo_vars, design_vars, store_vars, opt_vars, score_vars, fn_vars>>

\* no call of the repository is pending
IdleRepo == repo_call = <<>> /\ repo_ret = <<>>
\* no design_strand request is pending
IdleDesign == design_req = <<>> /\ design_result = <<>>
\* empty stores, no optimization request
IdleOpt ==
    /\ domain_cache = <<>> /\ strands = <<>> /\ oligos = <<>>
    /\ thal = "quiet"
    /\ opt_req = <<>> /\ generation = 0
    /\ valid_strand_sets = <<>> /\ opt_response = <<>>
\* no call of the score function is pending
IdleScore == score_call = <<>> /\ score_ret = <<>>
\* no call of a helper function is pending
IdleFn == fn_call = <<>> /\ fn_ret = <<>>

----------------------------------------------------------------------------
(* Bounds of the model                                                     *)

\* longest sequence that is synthesized base by base in the model
MaxSynthLen == 3
\* most domain specs in one design_strand request
MaxDomains == 2
\* most nucleotides one design_strand request asks for
MaxTotalLen == 25
\* most generations of an optimization request over the branching stores
MaxGenerations == 2
\* generations of the optimization request that retains every trial
LongGenerations == 11
\* most strands, and most cross-dimer entries, in one call of the score
MaxScoreStrands == 2
MaxScoreCross == 1
\* longest oligo length of an index, and longest target, in a call of
\* get_random_oligo
MaxPoolLen == 4
MaxTarget == 6
\* longest string reverse_complement is applied to, and longest loop between
\* the arms of a sequence given to calculate_hairpin_dg
MaxDnaLen == 3
MaxLoopLen == 4
\* longest sequence given to calculate_dimer_dg
MaxDimerLen == 4
\* most strand records the strands store holds at a time
MaxStrandId == 2

----------------------------------------------------------------------------
(* Python helpers                                                          *)

None == <<>>
Some(x) == <<x>>

Abs(x) == IF x < 0 THEN -x ELSE x
Max2(a, b) == IF a >= b THEN a ELSE b
Min2(a, b) == IF a <= b THEN a ELSE b

\* min of a non-empty finite set of integers
SetMin(S) == CHOOSE x \in S : \A y \in S : x <= y

Range(s) == {s[i] : i \in 1..Len(s)}

PySliceTo_untruncated(s, n) == s

\* list[:n]
PySliceTo(s, n) ==
    IF n >= 0 THEN SubSeq(s, 1, Min2(n, Len(s)))
    ELSE SubSeq(s, 1, Max2(0, Len(s) + n))

\* list[-n:] for n > 0
PyLast(s, n) == SubSeq(s, Max2(1, Len(s) - n + 1), Len(s))

\* [ch] * n : the empty list when n <= 0
Rep(ch, n) == [i \in 1..Max2(0, n) |-> ch]

\* round(num / den) for den > 0: Python rounds a tie to the even integer
PyRound(num, den) ==
    LET q == num \div den
        r == num - q * den
    IN  IF 2 * r < den THEN q
        ELSE IF 2 * r > den THEN q + 1
        ELSE IF q % 2 = 0 THEN q ELSE q + 1

RECURSIVE Concat(_)
\* ''.join(list of strings)
Concat(ss) == IF ss = <<>> THEN <<>> ELSE Head(ss) \o Concat(Tail(ss))

RECURSIVE SumSeq(_)
SumSeq(ns) == IF ns = <<>> THEN 0 ELSE Head(ns) + SumSeq(Tail(ns))

----------------------------------------------------------------------------
(* DNA                                                                     *)

Bases == {"A", "T", "G", "C"}

Count(s, ch) == Cardinality({i \in 1..Len(s) : s[i] = ch})

\* sequence.count('G') + sequence.count('C')
GcCount(s) == Count(s, "G") + Count(s, "C")

\* (gc_count / len(sequence)) * 100 in IEEE double arithmetic, against the
\* exact percentage: when 100 * gc_count / len is one of these integers the
\* product is one unit in the last place above it (+1) or below it (-1);
\* for every other percentage and for len < 125 the double compares with an
\* integer bound as the exact value does
percent_skew(gc_count, length) ==
    IF length = 0 \/ (100 * gc_count) % length # 0 THEN 0
    ELSE IF (100 * gc_count) \div length \in {7, 14, 28, 55, 56} THEN 1
    ELSE IF (100 * gc_count) \div length \in {29, 57, 58} THEN -1
    ELSE 0

\* lo <= x, x <= hi for a double x = num / den shifted by skew units in the
\* last place, and an integer bound; den > 0
float_ge(num, den, skew, lo) == lo * den < num \/ (lo * den = num /\ skew >= 0)
float_le(num, den, skew, hi) == num < hi * den \/ (num = hi * den /\ skew <= 0)

\* str.upper() on the characters the model uses
Upper(s) ==
    [i \in 1..Len(s) |->
        CASE s[i] = "a" -> "A" [] s[i] = "t" -> "T"
          [] s[i] = "g" -> "G" [] s[i] = "c" -> "C"
          [] s[i] = "x" -> "X" [] OTHER -> s[i]]

ValidAlphabet(s) == \A i \in 1..Len(s) : s[i] \in Bases

Comp(b) ==
    CASE b = "A" -> "T" [] b = "T" -> "A" [] b = "G" -> "C" [] b = "C" -> "G"

\* the exact Watson-Crick complement, reversed
reverse_complement(s) == [i \in 1..Len(s) |-> Comp(s[Len(s) + 1 - i])]

\* a pairing table that sends both G and C to C
HYBRIDIZE_lossy(c) ==
    CASE c = "A" -> "T" [] c = "T" -> "A" [] c = "G" -> "C" [] c = "C" -> "C"

\* gvars.HYBRIDIZE
HYBRIDIZE(c) ==
    CASE c = "A" -> "T" [] c = "T" -> "A" [] c = "G" -> "C" [] c = "C" -> "G"

\* seq[::-1]
Reverse(seq) == [i \in 1..Len(seq) |-> seq[Len(seq) + 1 - i]]

\* a test of the first and last character only
is_palindrome_ends(s) ==
    IF Len(s) = 0 THEN Some(TRUE) ELSE Some(s[1] = s[Len(s)])

\* dna_utils.is_palindrome: the loop over range(len(s) // 2) returns in its
\* first pass, False when s[0] differs from s[-1] and True otherwise; with no
\* pass the function ends without a return statement, which gives None
is_palindrome(s) ==
    IF Len(s) \div 2 = 0 THEN None
    ELSE IF s[1] # s[Len(s)] THEN Some(FALSE)
    ELSE Some(TRUE)

\* Domain.is_palindrome: dna_utils.is_palindrome(self.seq)
Domain_is_palindrome(self) == is_palindrome(self.seq)

\* dna_utils.reverse_complement: reverse first, then pair every character
dna_utils_reverse_complement(seq) ==
    LET reversed == Reverse(seq)
    IN  [i \in 1..Len(reversed) |-> HYBRIDIZE(reversed[i])]

\* dna_utils.is_valid: re.match('^[AUTGC]+$', s.upper())
is_valid(s) ==
    /\ s # <<>>
    /\ \A i \in 1..Len(s) : Upper(s)[i] \in Bases \cup {"U"}

\* Domain(name, seq); the constructor asserts is_valid(seq)
Domain(name, seq) == [name |-> name, seq |-> seq, length |-> Len(seq)]

\* Domain.reverse_complement: pair every character first, then reverse; the
\* new Domain carries the name with a star appended
Domain_reverse_complement(self) ==
    Domain(self.name \o "*",
           Reverse([i \in 1..Len(self.seq) |-> HYBRIDIZE(self.seq[i])]))

----------------------------------------------------------------------------
(* OrthogonalRepository (webapp/app.py and backend/core/repository.py)     *)

\* self.sequences_by_length.get(length, []) : the same table in both files
sequences_by_length(length) ==
    CASE length = 10 ->
        << <<"A","T","C","G","A","T","C","G","A","T">>,
           <<"G","C","T","A","G","C","T","A","G","T">>,
           <<"T","A","C","G","T","A","C","G","T","A">>,
           <<"C","G","A","T","C","G","A","T","C","G">>,
           <<"A","G","T","C","A","G","T","C","A","G">>,
           <<"T","C","G","A","T","C","G","A","T","C">>,
           <<"G","T","A","C","G","T","A","C","G","T">>,
           <<"C","A","T","G","C","A","T","G","C","A">> >>
    [] length = 15 ->
        << <<"A","T","C","G","A","T","C","G","A","T","C","G","A","T","C">>,
           <<"G","C","T","A","G","C","T","A","G","C","T","A","G","C","T">>,
           <<"T","A","C","G","T","A","C","G","T","A","C","G","T","A","C">>,
           <<"C","G","A","T","C","G","A","T","C","G","A","T","C","G","A">>,
           <<"A","G","T","C","A","G","T","C","A","G","T","C","A","G","T">>,
           <<"T","C","G","A","T","C","G","A","T","C","G","A","T","C","G">> >>
    [] length = 20 ->
        << <<"A","T","C","G","A","T","C","G","A","T","C","G","A","T","C","G","A","T","C","G">>,
           <<"G","C","T","A","G","C","T","A","G","C","T","A","G","C","T","A","G","C","T","A">>,
           <<"T","A","C","G","T","A","C","G","T","A","C","G","T","A","C","G","T","A","C","G">>,
           <<"C","G","A","T","C","G","A","T","C","G","A","T","C","G","A","T","C","G","A","T">>,
           <<"A","G","T","C","A","G","T","C","A","G","T","C","A","G","T","C","A","G","T","C">>,
           <<"T","C","G","A","T","C","G","A","T","C","G","A","T","C","G","A","T","C","G","A">> >>
    [] length = 25 ->
        << <<"A","T","C","G","A","T","C","G","A","T","C","G","A","T","C","G","A","T","C","G","A","T","C","G">>,
           <<"G","C","T","A","G","C","T","A","G","C","T","A","G","C","T","A","G","C","T","A","G","C","T","A">>,
           <<"T","A","C","G","T","A","C","G","T","A","C","G","T","A","C","G","T","A","C","G","T","A","C","G">>,
           <<"C","G","A","T","C","G","A","T","C","G","A","T","C","G","A","T","C","G","A","T","C","G","A","T">> >>
    [] OTHER -> <<>>

\* abs(gc_content - gc_target) <= tol, with gc_content = gc_count / len * 100
\* (0.0 for the empty string) and an integer gc_target
GcWithin(seq, gc_target, tol) ==
    IF seq = <<>> THEN Abs(gc_target) <= tol
    ELSE Abs(GcCount(seq) * 100 - gc_target * Len(seq)) <= tol * Len(seq)

\* the filter loop of get_orthogonal_sequence: suitable_candidates
suitable_candidates(length, gc_target, exclude_sequences, tol) ==
    LET candidates == sequences_by_length(length)
    IN  {candidates[i] : i \in
            {j \in 1..Len(candidates) :
                /\ candidates[j] \notin Range(exclude_sequences)
                /\ GcWithin(candidates[j], gc_target, tol)}}

\* the base list before the shuffle: exact counts from gc_target and length,
\* G/C and A/T split as evenly as integer division allows
base_list(length, gc_target) ==
    LET gc_count == PyRound(gc_target * length, 100)
        at_count == length - gc_count
    IN  Rep("G", gc_count \div 2) \o Rep("C", gc_count - gc_count \div 2) \o
        Rep("A", at_count \div 2) \o Rep("T", at_count - at_count \div 2)

\* "while len(bases) < length: bases.append(random.choice(['A', 'T']))"
padded(bases, length) ==
    LET k == Max2(0, length - Len(bases))
    IN  {bases \o p : p \in [1..k -> {"A", "T"}]}

RECURSIVE Shuffles(_)
\* every order random.shuffle can leave the list in
Shuffles(s) ==
    IF s = <<>> THEN {<<>>}
    ELSE UNION {{<<s[i]>> \o p :
                    p \in Shuffles(SubSeq(s, 1, i - 1) \o SubSeq(s, i + 1, Len(s)))}
                : i \in 1..Len(s)}

\* _create_random_sequence (webapp) and _generate_sequence (backend/core):
\* the set of strings one call can return
create_random_sequence(length, gc_target) ==
    UNION {Shuffles(PySliceTo(b, length)) :
              b \in padded(base_list(length, gc_target), length)}

\* webapp _generate_sequence: up to max_attempts draws, the first one not
\* excluded is returned; when every draw was excluded one more draw is
\* returned unchecked
webapp_generate_sequence(length, gc_target, exclude_sequences) ==
    LET draws == create_random_sequence(length, gc_target)
        fresh == {d \in draws : d \notin Range(exclude_sequences)}
    IN  fresh \cup (IF fresh # draws THEN draws ELSE {})

\* webapp get_orthogonal_sequence: the set of strings one call can return
webapp_get_orthogonal_sequence(length, gc_target, exclude_sequences) ==
    LET suitable == suitable_candidates(length, gc_target, exclude_sequences, 10)
    IN  IF suitable # {} THEN suitable
        ELSE webapp_generate_sequence(length, gc_target, exclude_sequences)

\* backend/core get_orthogonal_sequence
core_get_orthogonal_sequence(length, gc_target, exclude_sequences) ==
    LET suitable == suitable_candidates(length, gc_target, exclude_sequences, 15)
    IN  IF suitable # {} THEN suitable
        ELSE create_random_sequence(length, gc_target)

----------------------------------------------------------------------------
(* ThermodynamicCalculator of webapp/app.py, energies in 0.1 kcal/mol      *)

\* _are_complementary: complements.get(base1) == base2
are_complementary(base1, base2) ==
    base1 \in Bases /\ Comp(base1) = base2

\* nn_params[dinuc]: dH in 0.1 kcal/mol, dS in 0.1 cal/(mol K)
nn_params(x, y) ==
    CASE x = "A" /\ y = "A" -> [dH |-> -79,  dS |-> -222]
      [] x = "A" /\ y = "T" -> [dH |-> -72,  dS |-> -204]
      [] x = "A" /\ y = "G" -> [dH |-> -78,  dS |-> -210]
      [] x = "A" /\ y = "C" -> [dH |-> -84,  dS |-> -224]
      [] x = "T" /\ y = "A" -> [dH |-> -72,  dS |-> -213]
      [] x = "T" /\ y = "T" -> [dH |-> -79,  dS |-> -222]
      [] x = "T" /\ y = "G" -> [dH |-> -85,  dS |-> -227]
      [] x = "T" /\ y = "C" -> [dH |-> -82,  dS |-> -222]
      [] x = "G" /\ y = "A" -> [dH |-> -82,  dS |-> -222]
      [] x = "G" /\ y = "T" -> [dH |-> -84,  dS |-> -224]
      [] x = "G" /\ y = "G" -> [dH |-> -80,  dS |-> -199]
      [] x = "G" /\ y = "C" -> [dH |-> -98,  dS |-> -244]
      [] x = "C" /\ y = "A" -> [dH |-> -85,  dS |-> -227]
      [] x = "C" /\ y = "T" -> [dH |-> -78,  dS |-> -210]
      [] x = "C" /\ y = "G" -> [dH |-> -106, dS |-> -272]
      [] x = "C" /\ y = "C" -> [dH |-> -80,  dS |-> -199]
      [] OTHER -> [dH |-> 0, dS |-> 0]

\* terminal_at / terminal_gc, chosen by "sequence[k] in 'AT'"
terminal(b) ==
    IF b \in {"A", "T"} THEN [dH |-> 23, dS |-> 41] ELSE [dH |-> 1, dS |-> -28]

\* GlobalParams(**global_params): the requests of the model carry the default
\* parameters, a salt_conc of 0, or a key GlobalParams does not have
parse_params(global_params) ==
    IF global_params = "unknown_key"
    THEN [raised |-> TRUE, error |-> "TypeError: unexpected keyword argument"]
    ELSE [raised |-> FALSE, error |-> "",
          reaction_temp |-> 37,
          salt_conc |-> IF global_params = "zero_salt" THEN 0 ELSE 50,
          oligo_conc |-> 250]

\* 0.368 * ln(50 / 1000) = -1.102429 per nucleotide, in 0.000001 cal/(mol K)
SaltPerNt == -1102429
\* 1.987 * ln(250 / 4e9) = -32.960553, in 0.001 cal/(mol K)
RLnConc == -32961

\* the sum of dH over the nearest-neighbour pairs plus the two terminal
\* corrections, in 0.1 kcal/mol
melting_dH(sequence) ==
    SumSeq([i \in 1..(Len(sequence) - 1) |->
               nn_params(sequence[i], sequence[i + 1]).dH])
        + terminal(sequence[1]).dH + terminal(sequence[Len(sequence)]).dH

\* the same sum of dS with the salt correction, in 0.001 cal/(mol K)
melting_dS(sequence) ==
    100 * (SumSeq([i \in 1..(Len(sequence) - 1) |->
                      nn_params(sequence[i], sequence[i + 1]).dS])
             + terminal(sequence[1]).dS + terminal(sequence[Len(sequence)]).dS)
        + (SaltPerNt * Len(sequence)) \div 1000

\* floor(100 * (1000 dH / den)) by long division, and whether it is exact
melting_quotient(dH, dS, den) ==
    CHOOSE t \in
        {[dH |-> dH, dS |-> dS, den |-> den,
          tm100 |-> 100 * q1 + q2 - 27315,
          exact |-> 100 * (100000 * dH - q1 * den) = q2 * den] :
            q1 \in {(100000 * dH) \div den},
            q2 \in {(100 * (100000 * dH - ((100000 * dH) \div den) * den)) \div den}} :
        TRUE

\* calculate_melting_temp for the default salt and oligo concentrations: dH in
\* 0.1 kcal/mol, dS and the denominator den = dS + R ln(c) of the two-state
\* equation in 0.001 cal/(mol K); den < 0 for every sequence.  tm100 is
\* floor(100 * (1000 dH / den)) - 27315, Tm in 0.01 degrees C before the
\* max(0, .); exact says the floor dropped nothing
melting_terms(sequence) ==
    CHOOSE t \in {melting_quotient(dH, dS, dS + RLnConc) :
                     dH \in {melting_dH(sequence)},
                     dS \in {melting_dS(sequence)}} : TRUE

\* Tm in 0.01 degrees C: max(0, 1000 dH / (dS + R ln c) - 273.15); 0 for a
\* sequence shorter than 2; math.log raises for a salt_conc of 0
calculate_melting_temp(sequence, params) ==
    IF Len(sequence) < 2
    THEN [raised |-> FALSE, error |-> "", tm |-> 0, exact |-> TRUE]
    ELSE IF params.salt_conc <= 0 \/ params.oligo_conc <= 0
    THEN [raised |-> TRUE, error |-> "ValueError: math domain error", tm |-> 0,
          exact |-> TRUE]
    ELSE CHOOSE r \in
            {[raised |-> FALSE, error |-> "",
              tm |-> IF t.dS = 0 THEN 0 ELSE Max2(0, t.tm100),
              exact |-> t.exact] : t \in {melting_terms(sequence)}} : TRUE

\* webapp calculate_hairpin_dg: min_stem = min_loop = 3; i and j are 0-based
hairpin_splits(sequence) ==
    LET n == Len(sequence)
    IN  {<<i, loop_size>> \in (0..(n - 7)) \X (3..(n - 3)) :
            /\ loop_size <= n - i - 3
            /\ i + 3 + loop_size + 3 <= n}

hairpin_matches(sequence, i, loop_size) ==
    LET n == Len(sequence)
        j == i + 3 + loop_size
        stem_length == Min2(3, n - j)
    IN  Cardinality({k \in 0..(stem_length - 1) :
            /\ i + k < n
            /\ j + stem_length - 1 - k < n
            /\ are_complementary(sequence[i + k + 1],
                                 sequence[j + stem_length - 1 - k + 1])})

\* dg_total = -1.5 * matches + (3.0 + 0.5 * loop_size)
hairpin_dg_total(matches, loop_size) == -15 * matches + 30 + 5 * loop_size

\* the energy one split contributes to best_dg: dg_total when its stem has
\* min_stem matches, and nothing (0.0, the initial best_dg) otherwise
hairpin_split_dg(sequence, i, loop_size) ==
    LET matches == hairpin_matches(sequence, i, loop_size)
    IN  IF matches >= 3 THEN hairpin_dg_total(matches, loop_size) ELSE 0

\* best_dg: 0.0 lowered by every split with dg_total < best_dg
calculate_hairpin_dg(sequence) ==
    SetMin({0} \cup {hairpin_split_dg(sequence, sp[1], sp[2]) :
                        sp \in hairpin_splits(sequence)})

\* webapp calculate_dimer_dg: every register offset, min_overlap = 3
\* the i with 0 <= i - offset < len(seq2) are lo..hi
dimer_lo(offset) == Max2(0, offset)
dimer_hi(seq1, seq2, offset) == Min2(Len(seq1) - 1, Len(seq2) - 1 + offset)

dimer_overlap(seq1, seq2, offset) ==
    Max2(0, dimer_hi(seq1, seq2, offset) - dimer_lo(offset) + 1)

dimer_matches(seq1, seq2, offset) ==
    Cardinality({i \in dimer_lo(offset)..dimer_hi(seq1, seq2, offset) :
                    are_complementary(seq1[i + 1], seq2[i - offset + 1])})

\* the energy one alignment contributes: -1.2 * matches + 0.5 * overlap + 2.0
\* when overlap >= 3 and matches >= 3, and nothing (0.0) otherwise
dimer_offset_dg(seq1, seq2, offset) ==
    LET overlap == dimer_overlap(seq1, seq2, offset)
        matches == dimer_matches(seq1, seq2, offset)
    IN  IF overlap >= 3 /\ matches >= 3 THEN -12 * matches + 5 * overlap + 20
        ELSE 0

\* the alignments that slide seq2 to the right of seq1 only
calculate_dimer_dg_forward(seq1, seq2) ==
    SetMin({0} \cup {dimer_offset_dg(seq1, seq2, off) :
                        off \in 0..(Len(seq1) - 3)})

\* best_dg: 0.0 lowered by every alignment with dg < best_dg
calculate_dimer_dg(seq1, seq2) ==
    SetMin({0} \cup {dimer_offset_dg(seq1, seq2, off) :
                        off \in (3 - Len(seq2))..(Len(seq1) - 3)})

\* backend/core/thermodynamics.py calculate_dimer_dg, in 0.001 kcal/mol: the
\* energy one alignment contributes is -1.2 * matches + 2.0 + (temp - 37.0) *
\* 0.015 when overlap >= 3 and matches >= 3, and nothing (0.0) otherwise
core_dimer_offset_dg(seq1, seq2, offset, temp) ==
    LET overlap == dimer_overlap(seq1, seq2, offset)
        matches == dimer_matches(seq1, seq2, offset)
    IN  IF overlap >= 3 /\ matches >= 3
        THEN -1200 * matches + 2000 + 15 * (temp - 37)
        ELSE 0

\* best_dg: 0.0 lowered by every alignment of range(-len(seq2), len(seq1))
\* with dg < best_dg
core_calculate_dimer_dg(seq1, seq2, temp) ==
    SetMin({0} \cup {core_dimer_offset_dg(seq1, seq2, off, temp) :
                        off \in (-Len(seq2))..(Len(seq1) - 1)})

\* calculate_3prime_stability: -0.05 * (gc_count / length * 100) - 1.0 over the
\* last min(5, len) bases, as the fraction num / den of 0.1 kcal/mol;
\* division by zero for the empty sequence
calculate_3prime_stability(sequence) ==
    LET length == Min2(5, Len(sequence))
        end_seq == IF length = 0 THEN sequence ELSE PyLast(sequence, length)
    IN  IF length = 0
        THEN [raised |-> TRUE, error |-> "ZeroDivisionError", num |-> 0, den |-> 1]
        ELSE [raised |-> FALSE, error |-> "",
              num |-> -(50 * GcCount(end_seq) + 10 * length), den |-> length]

----------------------------------------------------------------------------
(* SequenceValidator of webapp/app.py                                      *)

\* pass iff reaction_temp + min_offset <= Tm <= reaction_temp + max_offset
\* (offsets in degrees C); a Tm whose floor is the upper limit passes only
\* when it is the limit exactly
validate_melting_temperature(sequence, params, min_offset, max_offset) ==
    CHOOSE v \in
        {IF r.raised THEN [raised |-> TRUE, error |-> r.error]
         ELSE [raised |-> FALSE, error |-> "",
               check |->
                 [pass_check |->
                    /\ (params.reaction_temp + min_offset) * 100 <= r.tm
                    /\ IF r.tm > 0 /\ ~r.exact
                       THEN r.tm < (params.reaction_temp + max_offset) * 100
                       ELSE r.tm <= (params.reaction_temp + max_offset) * 100,
                  value |-> r.tm]] :
            r \in {calculate_melting_temp(sequence, params)}} : TRUE

validate_hairpin_formation(sequence, max_dg) ==
    LET dg == calculate_hairpin_dg(sequence)
    IN  [pass_check |-> dg >= max_dg, delta_g |-> dg, threshold |-> max_dg]

validate_self_dimerization(sequence, max_dg) ==
    LET dg == calculate_dimer_dg(sequence, sequence)
    IN  [pass_check |-> dg >= max_dg, delta_g |-> dg, threshold |-> max_dg]

\* worst (most negative) dimer energy against every other sequence
validate_cross_dimerization(sequence, other_sequences, max_dg) ==
    LET worst_dg ==
            SetMin({0} \cup
                   {calculate_dimer_dg(sequence, other_sequences[i]) :
                       i \in {k \in 1..Len(other_sequences) :
                                 other_sequences[k] # sequence}})
    IN  [pass_check |-> worst_dg >= max_dg, delta_g |-> worst_dg,
         threshold |-> max_dg]

\* pass iff min_gc <= gc_content <= max_gc with the double
\* gc_content = (gc_count / len) * 100 (0.0 for the empty string)
validate_gc_content(sequence, min_gc, max_gc) ==
    LET n == Len(sequence)
        gc == GcCount(sequence)
        skew == percent_skew(gc, n)
    IN  [pass_check |->
            IF n = 0 THEN min_gc <= 0 /\ 0 <= max_gc
            ELSE /\ float_ge(100 * gc, n, skew, min_gc)
                 /\ float_le(100 * gc, n, skew, max_gc),
         value_num |-> 100 * gc, value_den |-> Max2(1, n),
         value_skew |-> skew]

\* pass iff the 3' stability is >= max_dg (0.1 kcal/mol)
validate_primer_3_end(sequence, max_dg) ==
    LET r == calculate_3prime_stability(sequence)
    IN  IF r.raised THEN [raised |-> TRUE, error |-> r.error]
        ELSE [raised |-> FALSE, error |-> "",
              check |-> [pass_check |-> r.num >= max_dg * r.den,
                         delta_g_num |-> r.num, delta_g_den |-> r.den]]

\* validate_repeats with max_repeat = 4: a homopolymer run of 5, or one
\* dinucleotide three times in a row
validate_repeats(sequence) ==
    LET n == Len(sequence)
        homopolymer == \E i \in 1..(n - 4) :
                          /\ sequence[i] \in Bases
                          /\ \A k \in 1..4 : sequence[i + k] = sequence[i]
        dinucleotide == \E i \in 1..(n - 5) :
                          \A k \in {2, 4} : /\ sequence[i + k] = sequence[i]
                                            /\ sequence[i + k + 1] = sequence[i + 1]
    IN  [pass_check |-> ~homopolymer /\ ~dinucleotide]

----------------------------------------------------------------------------
(* OligonucleotideDesigner of webapp/app.py                                *)

\* the reverse-complement marker of a domain name; names are sequences of
\* characters
Marker == "*"

RECURSIVE RStrip(_)
\* name.rstrip('*')
RStrip(name) ==
    IF name # <<>> /\ name[Len(name)] = Marker
    THEN RStrip(SubSeq(name, 1, Len(name) - 1)) ELSE name

\* the name carries the marker: a base name followed by one '*'
IsComplementName(name) ==
    /\ Len(name) >= 2
    /\ name[Len(name)] = Marker
    /\ name[Len(name) - 1] # Marker

\* a domain_data dict: a missing 'name' or 'length' key is has_* = FALSE;
\* fixed_sequence <<>> stands for None and for '' (both are falsy)
DomainData(has_name, name, has_length, length, fixed_sequence, gc) ==
    [has_name |-> has_name, name |-> name, has_length |-> has_length,
     length |-> length, fixed_sequence |-> fixed_sequence,
     target_gc_content |-> gc]

\* Domain(name=domain_data['name'], length=domain_data['length'], ...)
parse_domains(domains) ==
    IF \E i \in 1..Len(domains) : ~domains[i].has_name \/ ~domains[i].has_length
    THEN [raised |-> TRUE, error |-> "KeyError", domain_objects |-> <<>>]
    ELSE [raised |-> FALSE, error |-> "",
          domain_objects |->
            [i \in 1..Len(domains) |->
                [name |-> domains[i].name,
                 length |-> domains[i].length,
                 fixed_sequence |-> domains[i].fixed_sequence,
                 target_gc_content |-> domains[i].target_gc_content,
                 generated_sequence |-> None,
                 validation_passed |-> FALSE]]]

\* one pass of "for domain in domain_objects": the sequences the domain can
\* be given, all_sequences being those of the domains before it
webapp_resolve_domain(domain, all_sequences) ==
    IF domain.fixed_sequence # <<>>
    THEN {Upper(domain.fixed_sequence)}
    ELSE webapp_get_orthogonal_sequence(
             domain.length, domain.target_gc_content, all_sequences)

RECURSIVE webapp_resolve(_, _)
\* every all_sequences list the resolution loop can end with
webapp_resolve(domain_objects, all_sequences) ==
    IF Len(all_sequences) = Len(domain_objects) THEN {all_sequences}
    ELSE UNION {webapp_resolve(domain_objects, Append(all_sequences, s)) :
                  s \in webapp_resolve_domain(
                            domain_objects[Len(all_sequences) + 1], all_sequences)}

any_pass(checks) == \E k \in DOMAIN checks : checks[k].pass_check

\* all(check.pass_check for check in checks.values())
all_pass(checks) == \A k \in DOMAIN checks : checks[k].pass_check

\* the config dict of _validate_strand with config.get's defaults filled in:
\* offsets in degrees C, energies in 0.1 kcal/mol, GC bounds in percent
ValidationConfig(tm_lo, tm_hi, hairpin, self_dimer, cross_dimer, gc_lo, gc_hi, end_dg) ==
    [tm_min_offset |-> tm_lo, tm_max_offset |-> tm_hi,
     hairpin_max_dg |-> hairpin, self_dimer_max_dg |-> self_dimer,
     cross_dimer_max_dg |-> cross_dimer, gc_min |-> gc_lo, gc_max |-> gc_hi,
     primer_3_end_max_dg |-> end_dg]

\* config = {}
DefaultConfig == ValidationConfig(5, 25, -30, -60, -60, 40, 60, -30)

\* _validate_strand of webapp/app.py
validate_strand(sequence, all_sequences, params, config) ==
    LET mt == validate_melting_temperature(sequence, params,
                  config.tm_min_offset, config.tm_max_offset)
        other_sequences == SelectSeq(all_sequences, LAMBDA s : s # sequence)
        p3 == validate_primer_3_end(sequence, config.primer_3_end_max_dg)
        checks ==
            [melting_temperature |-> mt.check,
             hairpin_formation |->
                 validate_hairpin_formation(sequence, config.hairpin_max_dg),
             self_dimerization |->
                 validate_self_dimerization(sequence, config.self_dimer_max_dg),
             cross_dimerization |->
                 validate_cross_dimerization(sequence, other_sequences,
                                             config.cross_dimer_max_dg),
             gc_content |->
                 validate_gc_content(sequence, config.gc_min, config.gc_max),
             primer_3_end |-> p3.check]
    IN  IF mt.raised THEN [raised |-> TRUE, error |-> mt.error]
        ELSE IF p3.raised THEN [raised |-> TRUE, error |-> p3.error]
        ELSE [raised |-> FALSE, error |-> "",
              validation |->
                [overall_pass |-> all_pass(checks), checks |-> checks]]

\* _validate_strand with the default config ({}): thresholds in 0.1 kcal/mol
webapp_validate_strand(sequence, all_sequences, params) ==
    validate_strand(sequence, all_sequences, params, DefaultConfig)

\* _validate_domain: gc_content, repeats and hairpin with their defaults
webapp_validate_domain(sequence) ==
    /\ validate_gc_content(sequence, 40, 60).pass_check
    /\ validate_repeats(sequence).pass_check
    /\ validate_hairpin_formation(sequence, -30).pass_check

DesignFailure_WithValidation(error) ==
    [success |-> FALSE, strand |-> None,
     validation |-> Some([overall_pass |-> FALSE]),
     error_message |-> error]

\* the except branch of design_strand
DesignFailure(error) ==
    [success |-> FALSE, strand |-> None, validation |-> None,
     error_message |-> error]

\* the body of the try block after the resolution loop, for one outcome
\* all_sequences of that loop
webapp_finish(strand_name, domain_objects, all_sequences, params) ==
    LET final_sequence == Concat(all_sequences)
        v == webapp_validate_strand(final_sequence, all_sequences, params)
    IN  IF v.raised THEN DesignFailure(v.error)
        ELSE [success |-> TRUE,
              strand |-> Some(
                [name |-> strand_name,
                 total_length |-> Len(final_sequence),
                 sequence |-> final_sequence,
                 domains |->
                    [i \in 1..Len(domain_objects) |->
                        [domain_objects[i] EXCEPT
                            !.generated_sequence = Some(all_sequences[i]),
                            !.validation_passed =
                                webapp_validate_domain(all_sequences[i])]]]),
              validation |-> Some(v.validation),
              error_message |-> ""]

\* design_strand of webapp/app.py: every DesignResult one call can return
webapp_design_strand(strand_name, domains, global_params) ==
    LET params == parse_params(global_params)
        parsed == parse_domains(domains)
    IN  IF params.raised THEN {DesignFailure(params.error)}
        ELSE IF parsed.raised THEN {DesignFailure(parsed.error)}
        ELSE {webapp_finish(strand_name, parsed.domain_objects, all, params) :
                 all \in webapp_resolve(parsed.domain_objects, <<>>)}

----------------------------------------------------------------------------
(* backend/core: designer.py calling validator.py                          *)

\* thermodynamics.py: the terminal correction is added for an A or T end
\* only
core_terminal(b) ==
    IF b \in {"A", "T"} THEN [dH |-> 23, dS |-> 41] ELSE [dH |-> 0, dS |-> 0]

\* thermodynamics.py calculate_melting_temp: the terms of the two-state
\* equation, as melting_terms with the other terminal correction
core_melting_terms(sequence) ==
    CHOOSE t \in {melting_quotient(dH, dS, dS + RLnConc) :
        dH \in {melting_dH(sequence)
                  - terminal(sequence[1]).dH - terminal(sequence[Len(sequence)]).dH
                  + core_terminal(sequence[1]).dH
                  + core_terminal(sequence[Len(sequence)]).dH},
        dS \in {melting_dS(sequence)
                  - 100 * (terminal(sequence[1]).dS
                             + terminal(sequence[Len(sequence)]).dS)
                  + 100 * (core_terminal(sequence[1]).dS
                             + core_terminal(sequence[Len(sequence)]).dS)}} : TRUE

\* thermodynamics.py calculate_melting_temp, Tm in 0.01 degrees C
core_calculate_melting_temp(sequence, params) ==
    IF Len(sequence) < 2
    THEN [raised |-> FALSE, error |-> "", tm |-> 0, exact |-> TRUE]
    ELSE IF params.salt_conc <= 0 \/ params.oligo_conc <= 0
    THEN [raised |-> TRUE, error |-> "ValueError: math domain error", tm |-> 0,
          exact |-> TRUE]
    ELSE CHOOSE r \in
            {[raised |-> FALSE, error |-> "",
              tm |-> IF t.dS = 0 THEN 0 ELSE Max2(0, t.tm100),
              exact |-> t.exact] : t \in {core_melting_terms(sequence)}} : TRUE

\* validator.py validate_melting_temperature
core_validate_melting_temperature(sequence, params, min_offset, max_offset) ==
    CHOOSE v \in
        {IF r.raised THEN [raised |-> TRUE, error |-> r.error]
         ELSE [raised |-> FALSE, error |-> "",
               check |->
                 [pass_check |->
                    /\ (params.reaction_temp + min_offset) * 100 <= r.tm
                    /\ IF r.tm > 0 /\ ~r.exact
                       THEN r.tm < (params.reaction_temp + max_offset) * 100
                       ELSE r.tm <= (params.reaction_temp + max_offset) * 100,
                  value |-> r.tm]] :
            r \in {core_calculate_melting_temp(sequence, params)}} : TRUE

\* validator.py validate_hairpin_formation(sequence, max_dg): "dg >= max_dg"
\* raises TypeError unless max_dg is a number
core_validate_hairpin_formation(sequence, max_dg) ==
    IF max_dg.type # "float"
    THEN [raised |-> TRUE,
          error |-> "TypeError: '>=' not supported between 'float' and 'GlobalParams'"]
    ELSE [raised |-> FALSE, error |-> "",
          check |-> [pass_check |-> calculate_hairpin_dg(sequence) >= max_dg.value]]

\* designer.py _validate_strand: the melting temperature check, then
\* validate_hairpin_formation(sequence, params) with params where the
\* validator expects max_dg
core_validate_strand(sequence, all_sequences, params) ==
    LET mt == core_validate_melting_temperature(sequence, params, 5, 25)
        hp == core_validate_hairpin_formation(
                  sequence, [type |-> "GlobalParams", value |-> params])
    IN  IF mt.raised THEN [raised |-> TRUE, error |-> mt.error]
        ELSE IF hp.raised THEN [raised |-> TRUE, error |-> hp.error]
        ELSE [raised |-> FALSE, error |-> "",
              validation |->
                [overall_pass |-> mt.check.pass_check /\ hp.check.pass_check,
                 checks |-> [melting_temperature |-> mt.check,
                             hairpin_formation |-> hp.check]]]

\* validation_settings of validator.py: which checks are enabled (each
\* .get('enabled', True)); the other settings keep their defaults
ValidationSettings(melting_temp_on, hairpin_on, self_dimer_on, cross_dimer_on, gc_content_on) ==
    [melting_temp |-> melting_temp_on, hairpin |-> hairpin_on,
     self_dimer |-> self_dimer_on, cross_dimer |-> cross_dimer_on,
     gc_content |-> gc_content_on]

\* _validate_strand of validator.py: the checks in the order of the code.
\* An enabled hairpin, self-dimer or cross-dimer check passes params where
\* the validator takes max_dg and max_dg again by keyword (TypeError); an
\* enabled GC check calls validate_gc_content, which the SequenceValidator
\* of validator.py does not have (AttributeError)
validator_validate_strand(sequence, all_sequences, params, validation_settings) ==
    LET mt == core_validate_melting_temperature(sequence, params, 5, 25)
        checks == IF validation_settings.melting_temp
                  THEN [melting_temperature |-> mt.check]
                  ELSE <<>>
    IN  IF validation_settings.melting_temp /\ mt.raised
        THEN [raised |-> TRUE, error |-> mt.error]
        ELSE IF validation_settings.hairpin \/ validation_settings.self_dimer
                  \/ validation_settings.cross_dimer
        THEN [raised |-> TRUE,
              error |-> "TypeError: got multiple values for argument 'max_dg'"]
        ELSE IF validation_settings.gc_content
        THEN [raised |-> TRUE,
              error |-> "AttributeError: no attribute 'validate_gc_content'"]
        ELSE [raised |-> FALSE, error |-> "",
              validation |->
                [overall_pass |-> all_pass(checks), checks |-> checks]]

\* one pass of the resolution loop of designer.py
core_resolve_domain(domain, all_sequences) ==
    IF domain.fixed_sequence # <<>>
    THEN {Upper(domain.fixed_sequence)}
    ELSE core_get_orthogonal_sequence(
             domain.length, domain.target_gc_content, all_sequences)

RECURSIVE core_resolve(_, _)
core_resolve(domain_objects, all_sequences) ==
    IF Len(all_sequences) = Len(domain_objects) THEN {all_sequences}
    ELSE UNION {core_resolve(domain_objects, Append(all_sequences, s)) :
                  s \in core_resolve_domain(
                            domain_objects[Len(all_sequences) + 1], all_sequences)}

core_finish(strand_name, domain_objects, all_sequences, params) ==
    LET final_sequence == Concat(all_sequences)
        v == core_validate_strand(final_sequence, all_sequences, params)
    IN  IF v.raised THEN DesignFailure(v.error)
        ELSE [success |-> TRUE,
              strand |-> Some(
                [name |-> strand_name,
                 total_length |-> Len(final_sequence),
                 sequence |-> final_sequence,
                 domains |->
                    [i \in 1..Len(domain_objects) |->
                        [domain_objects[i] EXCEPT
                            !.generated_sequence = Some(all_sequences[i])]]]),
              validation |-> Some(v.validation),
              error_message |-> ""]

\* design_strand of backend/core/designer.py
core_design_strand(strand_name, domains, global_params) ==
    LET params == parse_params(global_params)
        parsed == parse_domains(domains)
    IN  IF params.raised THEN {DesignFailure(params.error)}
        ELSE IF parsed.raised THEN {DesignFailure(parsed.error)}
        ELSE {core_finish(strand_name, parsed.domain_objects, all, params) :
                 all \in core_resolve(parsed.domain_objects, <<>>)}

----------------------------------------------------------------------------
(* design_strand requests                                                  *)

\* the domain specs a request of the model is built from: pool draws of
\* length 10 and 25, a synthesized domain, fixed sequences (lower case, of
\* another length than stated, with a foreign character), lengths 0 and -1,
\* and dicts without 'name' or without 'length'
DomainSpecs ==
    { DomainData(TRUE, <<"A">>, TRUE, 10, <<>>, 50),
      DomainData(TRUE, <<"A", "*">>, TRUE, 10, <<>>, 50),
      DomainData(TRUE, <<"B">>, TRUE, 25, <<>>, 50),
      DomainData(TRUE, <<"C">>, TRUE, 2, <<>>, 50),
      DomainData(TRUE, <<"F">>, TRUE, 4, <<"a","t","c","g">>, 50),
      DomainData(TRUE, <<"G">>, TRUE, 10, <<"A","T","C","G">>, 50),
      DomainData(TRUE, <<"X">>, TRUE, 4, <<"A","T","x","G">>, 50),
      DomainData(TRUE, <<"Z">>, TRUE, 0, <<>>, 50),
      DomainData(TRUE, <<"N">>, TRUE, -1, <<>>, 50),
      DomainData(FALSE, <<>>, TRUE, 10, <<>>, 50),
      DomainData(TRUE, <<"L">>, FALSE, 0, <<>>, 50) }

DomainLists == UNION {[1..n -> DomainSpecs] : n \in 0..MaxDomains}

\* the nucleotides a request asks for
RequestedLength(domains) ==
    SumSeq([i \in 1..Len(domains) |-> Max2(0, domains[i].length)])

DesignRequests ==
    {[impl |-> im, strand_name |-> "s", domains |-> d, global_params |-> g] :
        im \in {"webapp", "core"}, d \in DomainLists,
        g \in {"default", "zero_salt", "unknown_key"}}

\* requests with non-default parameters carry a single domain
DesignRequestOk(r) ==
    /\ RequestedLength(r.domains) <= MaxTotalLen
    /\ r.global_params # "default" => Len(r.domains) <= 1

InitDesign ==
    /\ design_req \in {Some(r) : r \in {q \in DesignRequests : DesignRequestOk(q)}}
    /\ design_result = None
    /\ IdleRepo /\ IdleOpt /\ IdleScore /\ IdleFn

\* OligonucleotideDesigner.design_strand of webapp/app.py
design_strand ==
    /\ design_req # None
    /\ design_req[1].impl = "webapp"
    /\ design_result = None
    /\ \E res \in webapp_design_strand(design_req[1].strand_name,
                      design_req[1].domains, design_req[1].global_params) :
           design_result' = Some(res)
    /\ UNCHANGED <<design_req, repo_vars, store_vars, opt_vars, score_vars, fn_vars>>

\* OligonucleotideDesigner.design_strand of backend/core/designer.py
design_strand_core ==
    /\ design_req # None
    /\ design_req[1].impl = "core"
    /\ design_result = None
    /\ \E res \in core_design_strand(design_req[1].strand_name,
                      design_req[1].domains, design_req[1].global_params) :
           design_result' = Some(res)
    /\ UNCHANGED <<design_req, repo_vars, store_vars, opt_vars, score_vars, fn_vars>>

NextDesign == design_strand \/ design_strand_core

SpecDesign == InitDesign /\ [][NextDesign]_vars

----------------------------------------------------------------------------
(* Calls of get_orthogonal_sequence                                        *)

PoolLengths == {10, 15, 20, 25}

\* gc_target values for which (gc_target / 100) * length is exact in binary
GcTargets == {0, 25, 50, 75, 100}

\* lists of already-used sequences handed in as exclude_sequences
ExcludeLists(length, gc_target) ==
    IF length \in PoolLengths
    THEN {<<>>, <<sequences_by_length(length)[1]>>}
    ELSE {<<>>, <<PySliceTo(base_list(length, gc_target), length)>>}

RepoCalls ==
    {[impl |-> im, length |-> l, gc_target |-> g, exclude_sequences |-> e] :
        im \in {"webapp", "core"},
        l \in ((-1)..MaxSynthLen) \cup PoolLengths,
        g \in GcTargets,
        e \in UNION {ExcludeLists(l2, g2) : l2 \in (1..MaxSynthLen) \cup PoolLengths,
                                           g2 \in {50}}}

\* calls that stay in the curated pool or synthesize a short sequence
RepoCallOk(c) ==
    /\ c.exclude_sequences \in ExcludeLists(c.length, c.gc_target)
    /\ c.length \in PoolLengths =>
          suitable_candidates(c.length, c.gc_target, c.exclude_sequences,
                              IF c.impl = "webapp" THEN 10 ELSE 15) # {}

InitRepo ==
    /\ repo_call \in {Some(c) : c \in {d \in RepoCalls : RepoCallOk(d)}}
    /\ repo_ret = None
    /\ IdleDesign /\ IdleOpt /\ IdleScore /\ IdleFn

get_orthogonal_sequence ==
    /\ repo_call # None
    /\ repo_ret = None
    /\ LET c == repo_call[1]
       IN  \E s \in (IF c.impl = "webapp"
                     THEN webapp_get_orthogonal_sequence(
                              c.length, c.gc_target, c.exclude_sequences)
                     ELSE core_get_orthogonal_sequence(
                              c.length, c.gc_target, c.exclude_sequences)) :
               repo_ret' = Some(s)
    /\ UNCHANGED <<repo_call, design_vars, store_vars, opt_vars, score_vars, fn_vars>>

NextRepo == get_orthogonal_sequence

SpecRepo == InitRepo /\ [][NextRepo]_vars

----------------------------------------------------------------------------
(* backend/app.py: primer3 and OligoDesigner                               *)

\* primer3's thermodynamic alignment is a function of its arguments that the
\* program does not control.  The model ranges over a few such functions
\* (ThalTables); each depends on an argument through its 3' terminal base
\* and on whether it is a 3' end (at most 5 nucleotides) or a longer
\* sequence.  An outcome is ThalRaise or a ThermoResult with dg in cal/mol;
\* no value of a table is a rounding tie.  The table "toolong" is primer3
\* refusing a sequence as a whole (its hairpin and homodimer alignments
\* reject long inputs) while it still aligns the 3' end.
ThalRaise == [raised |-> TRUE, dg |-> 0]
ThermoResult(dg) == [raised |-> FALSE, dg |-> dg]

ThalTables == {"quiet", "mixed", "sticky"}
ValidateTables == ThalTables \cup {"toolong"}

ThalKey(seq) ==
    [base |-> IF seq = <<>> THEN "-" ELSE seq[Len(seq)],
     part |-> IF Len(seq) <= 5 THEN "end" ELSE "full"]

\* primer3.calc_hairpin(seq).dg
calc_hairpin(table, seq) ==
    LET k == ThalKey(seq)
    IN  IF k.base = "-" THEN ThalRaise
        ELSE IF table = "toolong"
        THEN IF k.part = "full" THEN ThalRaise
             ELSE IF k.base = "A" THEN ThermoResult(-2506)
             ELSE ThermoResult(-304)
        ELSE IF table = "mixed"
        THEN IF k.base = "C" THEN ThalRaise
             ELSE IF k.part = "end" THEN ThermoResult(-304)
             ELSE IF k.base = "A" THEN ThermoResult(-1996)
             ELSE IF k.base = "G" THEN ThermoResult(-1204)
             ELSE ThermoResult(-2506)
        ELSE ThermoResult(0)

\* primer3.calc_homodimer(seq).dg
calc_homodimer(table, seq) ==
    LET k == ThalKey(seq)
    IN  IF k.base = "-" THEN ThalRaise
        ELSE IF table = "toolong"
        THEN IF k.part = "full" THEN ThalRaise ELSE ThermoResult(-3141)
        ELSE IF table = "mixed"
        THEN IF k.base = "C" THEN ThalRaise
             ELSE IF k.base = "A" THEN ThermoResult(-3141)
             ELSE IF k.base = "G" THEN ThermoResult(-4208)
             ELSE ThermoResult(-5204)
        ELSE ThermoResult(-1000)

\* primer3.calc_heterodimer(seq1, seq2).dg; a first argument longer than a
\* 3' end has an energy of its own
calc_heterodimer(table, seq1, seq2) ==
    LET k1 == ThalKey(seq1)
        k2 == ThalKey(seq2)
    IN  IF k1.base = "-" \/ k2.base = "-" THEN ThalRaise
        ELSE IF table = "toolong"
        THEN IF k1.part = "full" /\ k2.part = "full" THEN ThalRaise
             ELSE IF k1.base = "G" THEN ThermoResult(-2001)
             ELSE ThermoResult(-5507)
        ELSE IF k1.part = "full" THEN ThermoResult(-7501)
        ELSE IF table = "sticky"
        THEN IF k1.base = k2.base THEN ThermoResult(0) ELSE ThermoResult(-7900)
        ELSE IF table = "mixed"
        THEN IF k1.base = k2.base
             THEN IF k1.base = "A" THEN ThermoResult(-4003)
                  ELSE IF k1.base = "G" THEN ThermoResult(-2001)
                  ELSE IF k1.base = "C" THEN ThalRaise
                  ELSE ThermoResult(-5507)
             ELSE IF k1.base = "A" /\ k2.base = "C" THEN ThermoResult(-7004)
             ELSE IF k1.base = "C" /\ k2.base = "A" THEN ThermoResult(-6503)
             ELSE IF k1.base = "C" /\ k2.base = "G" THEN ThermoResult(-9002)
             ELSE IF k1.base = "G" /\ k2.base = "C" THEN ThalRaise
             ELSE ThermoResult(-3502)
        ELSE ThermoResult(-4000)

\* round(x, 2) of an energy in cal/mol (0.001 kcal/mol) or of a score in
\* 0.001 points: the nearest multiple of 10
Round2(x) == 10 * PyRound(x, 10)

\* OligoDesigner.gc_content: the double (gc_count / len) * 100 as the
\* fraction num / den of a percentage and its skew
gc_content(sequence) ==
    IF sequence = <<>> THEN [num |-> 0, den |-> 1, skew |-> 0]
    ELSE [num |-> 100 * (Count(sequence, "G") + Count(sequence, "C")),
          den |-> Len(sequence),
          skew |-> percent_skew(Count(sequence, "G") + Count(sequence, "C"),
                                Len(sequence))]

\* OligoDesigner.melting_temp as the fraction num / den of degrees:
\* 64.9 + 41 * (gc - 16.4) / 100 is (58176 * len + 41000 * gc_count) /
\* (1000 * len)
melting_temp(sequence) ==
    IF Len(sequence) < 14
    THEN [num |-> 2 * (Count(sequence, "A") + Count(sequence, "T"))
                  + 4 * (Count(sequence, "G") + Count(sequence, "C")),
          den |-> 1, skew |-> 0]
    ELSE [num |-> 58176 * Len(sequence)
                  + 41000 * (Count(sequence, "G") + Count(sequence, "C")),
          den |-> 1000 * Len(sequence), skew |-> 0]

\* "lo <= x <= hi" for the double x = frac and integer bounds
InRange(lo, frac, hi) ==
    /\ float_ge(frac.num, frac.den, frac.skew, lo)
    /\ float_le(frac.num, frac.den, frac.skew, hi)

\* settings.get(key, default) for an Optional field
SettingOr(field, default) == IF field = None THEN default ELSE field[1]

\* a check whose except branch also marks the check as failed
thermo_check_failing(outcome, threshold, sentinel) ==
    IF outcome.raised \/ threshold = None
    THEN [valid |-> FALSE, value |-> sentinel]
    ELSE [valid |-> ~(outcome.dg < threshold[1]), value |-> Round2(outcome.dg)]

\* one primer3 check of validate_sequence: the call, the rounded value, the
\* comparison with the threshold; the except branch stores the sentinel and
\* leaves valid untouched.  threshold = None is settings[key] raising KeyError
thermo_check(outcome, threshold, sentinel) ==
    IF outcome.raised THEN [valid |-> TRUE, value |-> sentinel]
    ELSE IF threshold = None THEN [valid |-> TRUE, value |-> sentinel]
    ELSE [valid |-> ~(outcome.dg < threshold[1]), value |-> Round2(outcome.dg)]

\* OligoDesigner.validate_sequence; gc and tm values in 0.1 units, energies
\* in cal/mol
validate_sequence(table, sequence, settings) ==
    LET gc == gc_content(sequence)
        tm == melting_temp(sequence)
        three_prime_end == PyLast(sequence, 5)
        hairpin == thermo_check(calc_hairpin(table, sequence),
                                settings.hairpin_dg, -1000)
        self_dimer == thermo_check(calc_homodimer(table, sequence),
                                   settings.self_dimer_dg, -3000)
        end_hairpin ==
            thermo_check(calc_hairpin(table, three_prime_end),
                         Some(SettingOr(settings.three_prime_hairpin_dg, -2000)), 0)
        end_dimer ==
            thermo_check(calc_heterodimer(table, three_prime_end, sequence),
                         Some(SettingOr(settings.three_prime_self_dimer_dg, -5000)), 0)
    IN  IF settings.gc_min = None \/ settings.gc_max = None
        THEN [raised |-> TRUE, error |-> "KeyError: gc"]
        ELSE IF settings.tm_min = None \/ settings.tm_max = None
        THEN [raised |-> TRUE, error |-> "KeyError: tm"]
        ELSE
        LET gc_valid == InRange(settings.gc_min[1], gc, settings.gc_max[1])
            tm_valid == InRange(settings.tm_min[1], tm, settings.tm_max[1])
        IN  [raised |-> FALSE, error |-> "",
             results |->
               [gc_content |-> [valid |-> gc_valid,
                                value |-> PyRound(10 * gc.num, gc.den)],
                melting_temp |-> [valid |-> tm_valid,
                                  value |-> PyRound(10 * tm.num, tm.den)],
                hairpin_dg |-> hairpin,
                self_dimer_dg |-> self_dimer,
                three_prime_hairpin |-> end_hairpin,
                three_prime_self_dimer |-> end_dimer,
                overall_valid |->
                    /\ gc_valid /\ tm_valid
                    /\ hairpin.valid /\ self_dimer.valid
                    /\ end_hairpin.valid /\ end_dimer.valid]]

\* OligoDesigner.calculate_cross_dimer_dg: seq1 against seq2, 0.0 when
\* primer3 raises
calculate_cross_dimer_dg(table, seq1, seq2) ==
    LET dg == calc_heterodimer(table, seq1, seq2)
    IN  IF dg.raised THEN 0 ELSE dg.dg

\* OligoDesigner.calculate_three_prime_cross_dimer_dg: 3' end of seq1
\* against seq2, 0.0 when primer3 raises
calculate_three_prime_cross_dimer_dg(table, seq1, seq2) ==
    LET dg == calc_heterodimer(table, PyLast(seq1, 5), seq2)
    IN  IF dg.raised THEN 0 ELSE dg.dg

----------------------------------------------------------------------------
(* backend/app.py: the oligo index in Redis                                *)

\* a lookup that also returns the empty sequences of the index
get_oligos_by_length_unfiltered(length) ==
    IF length \in DOMAIN oligos THEN oligos[length] ELSE {}

\* get_oligos_by_length: the non-empty sequences filed under the length
get_oligos_by_length(length) ==
    IF length \in DOMAIN oligos
    THEN {o \in oligos[length] : o # <<>>}
    ELSE {}

\* get_all_oligo_lengths: the lengths whose index set is not empty
get_all_oligo_lengths == {l \in DOMAIN oligos : oligos[l] # {}}

SetMax(S) == CHOOSE x \in S : \A y \in S : x >= y

RECURSIVE construct_loop(_, _, _)
\* the while loop of construct_oligo_from_shorter: every value it can return
construct_loop(suitable_lengths, constructed_sequence, remaining_length) ==
    IF remaining_length <= 0 THEN {Some(constructed_sequence)}
    ELSE
    LET fitting == {l \in suitable_lengths : l <= remaining_length}
        \* "if not best_length" also takes a fitting length of 0 as none
        best_length == IF fitting = {} \/ SetMax(fitting) = 0
                       THEN SetMin(suitable_lengths) ELSE SetMax(fitting)
        found == get_oligos_by_length(best_length)
    IN  IF found = {} THEN {None}
        ELSE UNION {
               IF remaining_length >= Len(selected_oligo)
               THEN construct_loop(suitable_lengths,
                                   constructed_sequence \o selected_oligo,
                                   remaining_length - Len(selected_oligo))
               ELSE {Some(constructed_sequence
                          \o PySliceTo(selected_oligo, remaining_length))} :
               selected_oligo \in found}

\* construct_oligo_from_shorter: every value it can return
construct_oligo_from_shorter(target_length) ==
    LET available_lengths == get_all_oligo_lengths
        suitable_lengths == {l \in available_lengths : l < target_length}
        longer_lengths == {l \in available_lengths : l > target_length}
    IN  IF available_lengths = {} THEN {None}
        ELSE IF suitable_lengths = {}
        THEN IF longer_lengths = {} THEN {None}
             ELSE LET found == get_oligos_by_length(SetMin(longer_lengths))
                  IN  IF found = {} THEN {None}
                      ELSE {Some(PySliceTo(o, target_length)) : o \in found}
        ELSE construct_loop(suitable_lengths, <<>>, target_length)

get_random_oligo_padded(length) ==
    LET found == get_oligos_by_length(length)
        built == construct_oligo_from_shorter(length)
    IN  IF found # {} THEN {Some(o) : o \in found}
        ELSE IF built # {None} THEN built
        ELSE {Some([i \in 1..length |-> IF i % 2 = 1 THEN "G" ELSE "A"])}

\* get_random_oligo: an oligo of the exact length, else a constructed one
get_random_oligo(length) ==
    LET found == get_oligos_by_length(length)
    IN  IF found # {} THEN {Some(o) : o \in found}
        ELSE construct_oligo_from_shorter(length)

----------------------------------------------------------------------------
(* backend/app.py: calculate_strand_set_score                              *)
(* energies in cal/mol, penalties and scores in 0.001 points               *)

\* "if actual < threshold: penalty = abs(actual - threshold) * factor"
below_threshold_penalty(actual, threshold, factor) ==
    IF actual < threshold THEN Abs(actual - threshold) * factor ELSE 0

\* section 1 for one strand: hairpin x5, self-dimer x3, 3' hairpin x6, on
\* the stored (rounded or sentinel) values
thermodynamic_penalty(validation, settings) ==
    below_threshold_penalty(validation.hairpin_dg.value,
                            SettingOr(settings.hairpin_dg, -2000), 5)
    + below_threshold_penalty(validation.self_dimer_dg.value,
                              SettingOr(settings.self_dimer_dg, -5000), 3)
    + below_threshold_penalty(validation.three_prime_hairpin.value,
                              SettingOr(settings.three_prime_hairpin_dg, -2000), 6)

\* section 2 for one strand: ideal_range = (-6.0, -3.0)
imbalance_penalty(validation) ==
    LET three_prime_dg == validation.three_prime_self_dimer.value
    IN  IF three_prime_dg > -3000 THEN (three_prime_dg - (-3000)) * 4
        ELSE IF three_prime_dg < -6000 THEN Abs(three_prime_dg - (-6000)) * 6
        ELSE 0

\* a charge that adds the warning to the critical penalty
cross_dimer_penalty_cumulative(dg, settings) ==
    LET cross_dimer_threshold == SettingOr(settings.cross_dimer_dg, -8000)
        danger_zone == cross_dimer_threshold + 2000
    IN  (IF dg < cross_dimer_threshold
         THEN Abs(dg - cross_dimer_threshold) * 15 ELSE 0)
        + (IF dg < danger_zone THEN Abs(dg - danger_zone) * 3 ELSE 0)

\* section 3 for one entry of cross_dimer_results
cross_dimer_penalty(dg, settings) ==
    LET cross_dimer_threshold == SettingOr(settings.cross_dimer_dg, -8000)
        danger_zone == cross_dimer_threshold + 2000
    IN  IF dg < cross_dimer_threshold
        THEN Abs(dg - cross_dimer_threshold) * 15
        ELSE IF dg < danger_zone THEN Abs(dg - danger_zone) * 3
        ELSE 0

\* penalties['details']: one entry for each penalty that was charged
penalty_details(strand_list, cross_dimer_results, settings) ==
    LET v(i) == strand_list[i].validation
        charged(i, kind, amount) ==
            IF amount > 0 THEN <<[subject |-> i, kind |-> kind]>> ELSE <<>>
    IN  Concat([i \in 1..Len(strand_list) |->
            charged(i, "hairpin",
                below_threshold_penalty(v(i).hairpin_dg.value,
                    SettingOr(settings.hairpin_dg, -2000), 5))
            \o charged(i, "self_dimer",
                below_threshold_penalty(v(i).self_dimer_dg.value,
                    SettingOr(settings.self_dimer_dg, -5000), 3))
            \o charged(i, "three_prime_hairpin",
                below_threshold_penalty(v(i).three_prime_hairpin.value,
                    SettingOr(settings.three_prime_hairpin_dg, -2000), 6))])
        \o Concat([i \in 1..Len(strand_list) |->
            charged(i, "three_prime_end", imbalance_penalty(v(i)))])
        \o Concat([i \in 1..Len(cross_dimer_results) |->
            charged(i,
                IF cross_dimer_results[i].dg
                      < SettingOr(settings.cross_dimer_dg, -8000)
                THEN "cross_dimer_violation" ELSE "cross_dimer_risk",
                cross_dimer_penalty(cross_dimer_results[i].dg, settings))])

total_penalty_without_cross(penalties) ==
    penalties.thermodynamic_violations + penalties.three_prime_imbalance

\* total_penalty = the sum of the three categories
total_penalty(penalties) ==
    penalties.thermodynamic_violations + penalties.three_prime_imbalance
        + penalties.cross_dimer_risks

final_score_unfloored(penalty) == 100000 - penalty

\* final_score = max(0, score - total_penalty) with score = 100.0
final_score(penalty) == Max2(0, 100000 - penalty)

calculate_strand_set_score(strand_list, cross_dimer_results, settings) ==
    LET penalties ==
            [thermodynamic_violations |->
                SumSeq([i \in 1..Len(strand_list) |->
                    thermodynamic_penalty(strand_list[i].validation, settings)]),
             three_prime_imbalance |->
                SumSeq([i \in 1..Len(strand_list) |->
                    imbalance_penalty(strand_list[i].validation)]),
             cross_dimer_risks |->
                SumSeq([i \in 1..Len(cross_dimer_results) |->
                    cross_dimer_penalty(cross_dimer_results[i].dg, settings)])]
    IN  [total |-> Round2(final_score(total_penalty(penalties))),
         penalties |->
            [thermodynamic_violations |-> Round2(penalties.thermodynamic_violations),
             three_prime_imbalance |-> Round2(penalties.three_prime_imbalance),
             cross_dimer_risks |-> Round2(penalties.cross_dimer_risks),
             total_penalty |-> Round2(total_penalty(penalties))],
         penalty_details |->
            penalty_details(strand_list, cross_dimer_results, settings)]

----------------------------------------------------------------------------
(* backend/app.py: generate_optimized_strand_sets                          *)

\* top_sets = valid_strand_sets[:10]
TopK == 10

\* target_strands = [strands[sid] for sid in strand_ids if sid in strands]
target_strands(strand_ids) ==
    LET known == SelectSeq(strand_ids, LAMBDA sid : sid \in DOMAIN strands)
    IN  [i \in 1..Len(known) |-> strands[known[i]]]

\* required_domains: the base name of every domain of the target strands
required_domains(targets) ==
    UNION {{RStrip(targets[i].domains[j]) : j \in 1..Len(targets[i].domains)} :
              i \in 1..Len(targets)}

\* what "base_sequence = get_random_oligo(length)" can give for one base
\* name; a name that is not in domain_cache gives nothing
base_draws(base_name) ==
    IF base_name \in DOMAIN domain_cache
    THEN get_random_oligo(domain_cache[base_name])
    ELSE {None}

\* the first loop of a generation, for every set of draws d: the loop ends
\* at the first base name that is not cached or draws nothing
\* (generation_failed) or whose draw reverse_complement cannot map
\* (KeyError); required_domains is a set, so any of them can be the first
draw_assignments(required) ==
    UNION {
      LET failing == {b \in required : d[b] = None \/ d[b] = Some(<<>>)}
          raising == {b \in required : d[b] # None /\ ~ValidAlphabet(d[b][1])}
      IN  IF failing = {} /\ raising = {}
          THEN {[failed |-> FALSE, raised |-> FALSE, base |-> d]}
          ELSE {[failed |-> TRUE, raised |-> FALSE, base |-> d] :
                    b \in failing}
               \cup {[failed |-> FALSE, raised |-> TRUE, base |-> d] :
                    b \in raising} :
      d \in {e \in [required -> UNION {base_draws(b) : b \in required}] :
                \A b \in required : e[b] \in base_draws(b)}}

\* "domain_name in domain_assignments"
assigned(assignment, domain_name) ==
    \/ domain_name \in DOMAIN assignment.base
    \/ /\ domain_name # <<>>
       /\ domain_name[Len(domain_name)] = Marker
       /\ SubSeq(domain_name, 1, Len(domain_name) - 1) \in DOMAIN assignment.base

\* an assignment that files the drawn sequence itself under base_name + '*'
domain_assignments_unpaired(assignment, domain_name) ==
    IF domain_name \in DOMAIN assignment.base
    THEN assignment.base[domain_name][1]
    ELSE assignment.base[SubSeq(domain_name, 1, Len(domain_name) - 1)][1]

\* domain_assignments[domain_name]: the drawn sequence under the base name,
\* its reverse complement under base_name + '*'
domain_assignments(assignment, domain_name) ==
    IF domain_name \in DOMAIN assignment.base
    THEN assignment.base[domain_name][1]
    ELSE reverse_complement(
             assignment.base[SubSeq(domain_name, 1, Len(domain_name) - 1)][1])

RECURSIVE build_strands(_, _, _, _)
\* the loop "for strand in target_strands" from strand number i on:
\* generation_strands, or all_valid = False, or the exception that left it
build_strands(targets, i, assignment, settings) ==
    IF i > Len(targets)
    THEN [all_valid |-> TRUE, raised |-> FALSE, error |-> "",
          generation_strands |-> <<>>]
    ELSE
    LET strand == targets[i]
        complete == \A j \in 1..Len(strand.domains) :
                        assigned(assignment, strand.domains[j])
        strand_seq == Concat([j \in 1..Len(strand.domains) |->
                                domain_assignments(assignment, strand.domains[j])])
        strand_validation == validate_sequence(thal, strand_seq, settings)
        rest == build_strands(targets, i + 1, assignment, settings)
        discarded == [all_valid |-> FALSE, raised |-> FALSE, error |-> "",
                      generation_strands |-> <<>>]
    IN  IF ~complete THEN discarded
        ELSE IF strand_validation.raised
        THEN [all_valid |-> FALSE, raised |-> TRUE,
              error |-> strand_validation.error, generation_strands |-> <<>>]
        ELSE IF ~strand_validation.results.overall_valid THEN discarded
        ELSE IF ~rest.all_valid THEN rest
        ELSE [rest EXCEPT !.generation_strands =
                <<[name |-> strand.name, sequence |-> strand_seq,
                   validation |-> strand_validation.results]>>
                \o rest.generation_strands]

\* results with one entry for every unordered pair of strands
cross_dimer_results_unordered(generation_strands) ==
    LET n == Len(generation_strands)
        pairs == SelectSeq([k \in 1..(n * n) |->
                               <<((k - 1) \div n) + 1, ((k - 1) % n) + 1>>],
                           LAMBDA p : p[1] < p[2])
    IN  [k \in 1..Len(pairs) |->
            [strand1 |-> generation_strands[pairs[k][1]].name,
             strand2 |-> generation_strands[pairs[k][2]].name,
             dg |-> calculate_three_prime_cross_dimer_dg(thal,
                        generation_strands[pairs[k][1]].sequence,
                        generation_strands[pairs[k][2]].sequence)]]

\* cross_dimer_results: 3' end of strand i against strand j, i # j, in the
\* order of the two nested loops
cross_dimer_results(generation_strands) ==
    LET n == Len(generation_strands)
        pairs == SelectSeq([k \in 1..(n * n) |->
                               <<((k - 1) \div n) + 1, ((k - 1) % n) + 1>>],
                           LAMBDA p : p[1] # p[2])
    IN  [k \in 1..Len(pairs) |->
            [strand1 |-> generation_strands[pairs[k][1]].name,
             strand2 |-> generation_strands[pairs[k][2]].name,
             dg |-> calculate_three_prime_cross_dimer_dg(thal,
                        generation_strands[pairs[k][1]].sequence,
                        generation_strands[pairs[k][2]].sequence)]]

cross_dimer_valid_unchecked(results, settings) == TRUE

\* cross_dimer_valid: no entry below settings.get('cross_dimer_dg', -8.0)
cross_dimer_valid(results, settings) ==
    \A k \in 1..Len(results) :
        ~(results[k].dg < SettingOr(settings.cross_dimer_dg, -8000))

\* the body of "for generation in range(num_generations)" for one set of
\* draws: the trial to append, a discard, or the exception that was raised
run_trial(targets, assignment, settings, generation_index) ==
    IF assignment.raised
    THEN [kind |-> "raised", error |-> "KeyError: complement"]
    ELSE IF assignment.failed THEN [kind |-> "discarded"]
    ELSE
    LET built == build_strands(targets, 1, assignment, settings)
        results == cross_dimer_results(built.generation_strands)
        score == calculate_strand_set_score(built.generation_strands,
                                            results, settings)
    IN  IF built.raised THEN [kind |-> "raised", error |-> built.error]
        ELSE IF ~built.all_valid THEN [kind |-> "discarded"]
        ELSE IF ~cross_dimer_valid(results, settings) THEN [kind |-> "discarded"]
        ELSE [kind |-> "retained",
              trial |-> [generation |-> generation_index + 1,
                         strands |-> built.generation_strands,
                         cross_dimer_results |-> results,
                         score |-> score]]

RECURSIVE insert_by_score(_, _)
\* put trial behind every trial of sorted_sets whose score is not smaller
insert_by_score(sorted_sets, trial) ==
    IF sorted_sets = <<>> THEN <<trial>>
    ELSE IF Head(sorted_sets).score.total >= trial.score.total
    THEN <<Head(sorted_sets)>> \o insert_by_score(Tail(sorted_sets), trial)
    ELSE <<trial>> \o sorted_sets

RECURSIVE sort_by_score_first(_, _)
sort_by_score_first(sets, n) ==
    IF n = 0 THEN <<>>
    ELSE insert_by_score(sort_by_score_first(sets, n - 1), sets[n])

sort_by_score_unsorted(sets) == sets

\* valid_strand_sets.sort(key=score.total, reverse=True): list.sort is
\* stable, and with reverse=True equal keys keep their original order
sort_by_score(sets) == sort_by_score_first(sets, Len(sets))

----------------------------------------------------------------------------
(* Optimization requests                                                   *)

Name(str) == <<str>>
Star(name) == Append(name, Marker)

OligoGATCCA == <<"G", "A", "T", "C", "C", "A">>
OligoCTAGCG == <<"C", "T", "A", "G", "C", "G">>
OligoCAGTT == <<"C", "A", "G", "T", "T">>

\* the request's settings; a field that the request leaves out is None
Settings(gc_lo, gc_hi, tm_lo, tm_hi, hairpin, self_dimer, end_hairpin, end_dimer, cross) ==
    [gc_min |-> gc_lo, gc_max |-> gc_hi, tm_min |-> tm_lo, tm_max |-> tm_hi,
     hairpin_dg |-> hairpin, self_dimer_dg |-> self_dimer,
     three_prime_hairpin_dg |-> end_hairpin,
     three_prime_self_dimer_dg |-> end_dimer,
     cross_dimer_dg |-> cross]

StandardSettings ==
    Settings(Some(30), Some(70), Some(10), Some(90), Some(-2000), Some(-5000),
             None, None, None)
\* a narrow GC window and thresholds tighter than the defaults
StrictSettings ==
    Settings(Some(40), Some(60), Some(10), Some(90), Some(-500), Some(-5000),
             Some(-1000), Some(-4500), Some(-6800))
\* hairpin_dg and self_dimer_dg left out
BareSettings ==
    Settings(Some(30), Some(70), Some(10), Some(90), None, None, None, None, None)
\* gc_min left out
NoGcSettings ==
    Settings(None, Some(70), Some(10), Some(90), Some(-2000), Some(-5000),
             None, None, None)

\* stores whose draws branch: 'a' is drawn, 'b' is joined from two oligos,
\* 'c' is cut from a longer oligo, 'd' has no length
BranchingStores ==
    [domain_cache |-> (Name("a") :> 6) @@ (Name("b") :> 8) @@ (Name("c") :> 4),
     oligos |-> (6 :> {OligoGATCCA, OligoCTAGCG}),
     strands |-> <<[name |-> "s1", domains |-> <<Name("a"), Star(Name("b"))>>],
                   [name |-> "s2", domains |-> <<Star(Name("a"))>>],
                   [name |-> "s3", domains |-> <<Name("c"), Star(Star(Name("a")))>>],
                   [name |-> "s4", domains |-> <<Name("d")>>],
                   [name |-> "s5", domains |-> <<Name("a")>>]>>]

\* the same stores with an empty oligo index
EmptyStores == [BranchingStores EXCEPT !.oligos = <<>>]

\* four strands over one oligo per length, with four different 3' bases
WideStores ==
    [domain_cache |-> (Name("a") :> 6) @@ (Name("b") :> 5),
     oligos |-> (6 :> {OligoGATCCA}) @@ (5 :> {OligoCAGTT}),
     strands |-> <<[name |-> "w1", domains |-> <<Name("a")>>],
                   [name |-> "w2", domains |-> <<Star(Name("a"))>>],
                   [name |-> "w3", domains |-> <<Name("b")>>],
                   [name |-> "w4", domains |-> <<Star(Name("b"))>>]>>]

OptRequest(strand_ids, settings, num_generations) ==
    [strand_ids |-> strand_ids, settings |-> settings,
     num_generations |-> num_generations]

Scenario(stores, table, request) ==
    [stores |-> stores, thal |-> table, request |-> request]

BranchingStrandIds ==
    {<<>>, <<9>>, <<5>>, <<9, 5>>, <<5, 2>>, <<1, 2>>, <<2, 3>>, <<4>>,
     <<5, 4>>}

OptScenarios ==
    {Scenario(BranchingStores, t, OptRequest(ids, st, n)) :
        t \in {"quiet", "mixed"},
        ids \in BranchingStrandIds,
        st \in {StandardSettings, StrictSettings, BareSettings, NoGcSettings},
        n \in 0..MaxGenerations}
    \cup {Scenario(EmptyStores, "quiet", OptRequest(<<5>>, StandardSettings, n)) :
            n \in 1..MaxGenerations}
    \cup {Scenario(BranchingStores, "mixed",
                   OptRequest(<<5>>, StandardSettings, LongGenerations))}
    \cup {Scenario(WideStores, "sticky",
                   OptRequest(<<1, 2, 3, 4>>, StandardSettings, 1))}

InitOpt ==
    /\ \E sc \in OptScenarios :
          /\ domain_cache = sc.stores.domain_cache
          /\ strands = sc.stores.strands
          /\ oligos = sc.stores.oligos
          /\ thal = sc.thal
          /\ opt_req = Some(sc.request)
    /\ generation = 0
    /\ valid_strand_sets = <<>>
    /\ opt_response = None
    /\ IdleRepo /\ IdleDesign /\ IdleScore /\ IdleFn

\* generate_optimized_strand_sets: "if not target_strands: return ..."
no_strands_selected ==
    /\ opt_req # None /\ opt_response = None
    /\ target_strands(opt_req[1].strand_ids) = <<>>
    /\ opt_response' = Some([success |-> FALSE, error |-> "No strands selected"])
    /\ UNCHANGED <<opt_req, generation, valid_strand_sets>>
    /\ UNCHANGED <<repo_vars, design_vars, store_vars, score_vars, fn_vars>>

strands_after_generation_storing(targets) ==
    [sid \in DOMAIN strands |->
        IF strands[sid] \in Range(targets)
        THEN [name |-> strands[sid].name, domains |-> strands[sid].domains,
              sequence |-> <<>>]
        ELSE strands[sid]]

\* the strands store after one pass of the loop: the pass builds
\* generation_strands, a local list, and assigns to no entry of strands
strands_after_generation(targets) == strands

\* generate_optimized_strand_sets: one pass of the loop over the generations
run_generation ==
    /\ opt_req # None /\ opt_response = None
    /\ target_strands(opt_req[1].strand_ids) # <<>>
    /\ generation < opt_req[1].num_generations
    /\ LET targets == target_strands(opt_req[1].strand_ids)
       IN  \E assignment \in draw_assignments(required_domains(targets)) :
             LET outcome == run_trial(targets, assignment, opt_req[1].settings,
                                      generation)
             IN  IF outcome.kind = "raised"
                 THEN /\ opt_response' = Some([success |-> FALSE,
                                               error |-> outcome.error])
                      /\ UNCHANGED <<generation, valid_strand_sets>>
                 ELSE /\ generation' = generation + 1
                      /\ valid_strand_sets' =
                            IF outcome.kind = "retained"
                            THEN Append(valid_strand_sets, outcome.trial)
                            ELSE valid_strand_sets
                      /\ UNCHANGED opt_response
    /\ strands' = strands_after_generation(target_strands(opt_req[1].strand_ids))
    /\ UNCHANGED <<opt_req, domain_cache, oligos, thal>>
    /\ UNCHANGED <<repo_vars, design_vars, score_vars, fn_vars>>

\* generate_optimized_strand_sets: after the loop, sort and return the top
return_top_sets ==
    /\ opt_req # None /\ opt_response = None
    /\ target_strands(opt_req[1].strand_ids) # <<>>
    /\ generation >= opt_req[1].num_generations
    /\ valid_strand_sets' = sort_by_score(valid_strand_sets)
    /\ opt_response' =
          Some([success |-> TRUE, error |-> "",
                total_generated |-> opt_req[1].num_generations,
                total_valid |-> Len(valid_strand_sets),
                top_strand_sets |->
                    PySliceTo(sort_by_score(valid_strand_sets), TopK)])
    /\ UNCHANGED <<opt_req, generation>>
    /\ UNCHANGED <<repo_vars, design_vars, store_vars, score_vars, fn_vars>>

NextOpt == no_strands_selected \/ run_generation \/ return_top_sets

SpecOpt == InitOpt /\ [][NextOpt]_vars

----------------------------------------------------------------------------
(* Calls of calculate_strand_set_score                                     *)

\* a strand's validation as far as the score reads it: the four stored
\* energies (values with two decimals, in cal/mol)
ScoredValidation(hairpin, self_dimer, end_hairpin, end_dimer) ==
    [hairpin_dg |-> [value |-> hairpin],
     self_dimer_dg |-> [value |-> self_dimer],
     three_prime_hairpin |-> [value |-> end_hairpin],
     three_prime_self_dimer |-> [value |-> end_dimer]]

\* validations on both sides of every threshold and band edge
ScoreValidations ==
    { ScoredValidation(0, 0, 0, -4500),
      ScoredValidation(-1000, -3000, 0, 0),
      ScoredValidation(-2010, -5000, -2000, -3000),
      ScoredValidation(-2000, -5010, -2010, -6000),
      ScoredValidation(-30000, -30000, -30000, -30000),
      ScoredValidation(500, 500, 500, 12000),
      ScoredValidation(0, 0, 0, -6010),
      ScoredValidation(0, 0, 0, -2990) }

ScoreStrandLists ==
    UNION {[1..n -> {[name |-> "s", validation |-> v] : v \in ScoreValidations}] :
              n \in 0..MaxScoreStrands}

\* cross-dimer energies (cal/mol) below, at and above threshold and danger zone
ScoreCrossValues == {-40000, -8002, -8000, -6001, -6000, 0, 700}

ScoreCrossLists ==
    UNION {[1..n -> {[strand1 |-> "s", strand2 |-> "t", dg |-> x] :
                        x \in ScoreCrossValues}] :
              n \in 0..MaxScoreCross}

ScoreSettings == {BareSettings, StrictSettings}

InitScore ==
    /\ score_call \in {Some([strands |-> sl, cross_dimer_results |-> cl,
                             settings |-> st]) :
                          sl \in ScoreStrandLists, cl \in ScoreCrossLists,
                          st \in ScoreSettings}
    /\ score_ret = None
    /\ IdleRepo /\ IdleDesign /\ IdleOpt /\ IdleFn

\* one call of calculate_strand_set_score
call_calculate_strand_set_score ==
    /\ score_call # None /\ score_ret = None
    /\ score_ret' = Some(calculate_strand_set_score(score_call[1].strands,
                            score_call[1].cross_dimer_results,
                            score_call[1].settings))
    /\ UNCHANGED <<score_call, repo_vars, design_vars, store_vars, opt_vars, fn_vars>>

NextScore == call_calculate_strand_set_score

SpecScore == InitScore /\ [][NextScore]_vars

----------------------------------------------------------------------------
(* Calls of get_random_oligo and construct_oligo_from_shorter              *)

\* the oligos filed under a length: every one has exactly that length
OligosOfLength(l) == {SubSeq(OligoGATCCA, 1, l), SubSeq(OligoCTAGCG, 1, l)}

\* an index for every set of lengths 0..MaxPoolLen; the one sequence of
\* length 0 is the empty string
OligoIndexes ==
    {[l \in S |-> OligosOfLength(l)] : S \in SUBSET (0..MaxPoolLen)}

InitOligo ==
    /\ oligos \in OligoIndexes
    /\ fn_call \in {Some([fn |-> f, length |-> l]) :
                       f \in {"get_random_oligo", "construct_oligo_from_shorter"},
                       l \in 1..MaxTarget}
    /\ fn_ret = None
    /\ domain_cache = <<>> /\ strands = <<>> /\ thal = "quiet"
    /\ opt_req = <<>> /\ generation = 0
    /\ valid_strand_sets = <<>> /\ opt_response = <<>>
    /\ IdleRepo /\ IdleDesign /\ IdleScore

\* one call of get_random_oligo
call_get_random_oligo ==
    /\ fn_call # None /\ fn_ret = None
    /\ fn_call[1].fn = "get_random_oligo"
    /\ \E res \in get_random_oligo(fn_call[1].length) : fn_ret' = Some(res)
    /\ UNCHANGED <<fn_call, repo_vars, design_vars, store_vars, opt_vars, score_vars>>

\* one call of construct_oligo_from_shorter
call_construct_oligo_from_shorter ==
    /\ fn_call # None /\ fn_ret = None
    /\ fn_call[1].fn = "construct_oligo_from_shorter"
    /\ \E res \in construct_oligo_from_shorter(fn_call[1].length) :
          fn_ret' = Some(res)
    /\ UNCHANGED <<fn_call, repo_vars, design_vars, store_vars, opt_vars, score_vars>>

NextOligo == call_get_random_oligo \/ call_construct_oligo_from_shorter

SpecOligo == InitOligo /\ [][NextOligo]_vars

----------------------------------------------------------------------------
(* Calls of the validators                                                 *)

\* a sequence of length n with gc_count G's
GcSeq(gc_count, n) == Rep("G", gc_count) \o Rep("A", n - gc_count)

\* the empty string, short and pool sequences with every 3' base, and
\* sequences whose GC percentage is 55, 28 and 58
ValidateSequences ==
    { <<>>, <<"G", "C">>, OligoCAGTT, OligoGATCCA,
      sequences_by_length(10)[1], sequences_by_length(10)[4],
      sequences_by_length(20)[1],
      GcSeq(11, 20), GcSeq(7, 25), GcSeq(29, 50) }

\* config dicts of the webapp _validate_strand: the defaults, thresholds
\* that the energies of the model fail, thresholds that nothing fails
ValidationConfigs ==
    { DefaultConfig,
      ValidationConfig(5, 25, 10, 0, 0, 50, 55, -10),
      ValidationConfig(-40, 100, -100, -100, -100, 0, 100, -100) }

ValidationSettingsSet ==
    {ValidationSettings(a, b, c, d, e) :
        a \in BOOLEAN, b \in BOOLEAN, c \in BOOLEAN, d \in BOOLEAN, e \in BOOLEAN}

\* settings whose GC window ends at percentages the double misses
GcEdgeSettings ==
    Settings(Some(28), Some(55), Some(10), Some(90), Some(-2000), Some(-5000),
             None, None, None)

GcBounds == {0, 28, 40, 55, 58, 60, 100}

ValidatorCalls ==
    {[fn |-> "_validate_strand", impl |-> "webapp", sequence |-> q,
      all_sequences |-> <<q>> \o a, config |-> c] :
        q \in ValidateSequences, c \in ValidationConfigs,
        a \in {<<>>, <<sequences_by_length(10)[2]>>}}
    \cup
    {[fn |-> "_validate_strand", impl |-> "validator", sequence |-> q,
      all_sequences |-> <<q>>, validation_settings |-> v] :
        q \in ValidateSequences, v \in ValidationSettingsSet}
    \cup
    {[fn |-> "validate_sequence", table |-> t, sequence |-> q, settings |-> st] :
        t \in ValidateTables, q \in ValidateSequences,
        st \in {StandardSettings, StrictSettings, BareSettings, NoGcSettings,
                 GcEdgeSettings}}
    \cup
    {[fn |-> "validate_gc_content", sequence |-> q,
      min_gc |-> b[1], max_gc |-> b[2]] :
        q \in ValidateSequences,
        b \in {c \in GcBounds \X GcBounds : c[1] <= c[2]}}

InitValidate ==
    /\ fn_call \in {Some(c) : c \in ValidatorCalls}
    /\ fn_ret = None
    /\ IdleRepo /\ IdleDesign /\ IdleOpt /\ IdleScore

\* one call of _validate_strand of webapp/app.py
call_validate_strand ==
    /\ fn_call # None /\ fn_ret = None
    /\ fn_call[1].fn = "_validate_strand" /\ fn_call[1].impl = "webapp"
    /\ fn_ret' = Some(validate_strand(fn_call[1].sequence, fn_call[1].all_sequences,
                                      parse_params("default"), fn_call[1].config))
    /\ UNCHANGED <<fn_call, repo_vars, design_vars, store_vars, opt_vars, score_vars>>

\* one call of _validate_strand of backend/core/validator.py
call_validator_validate_strand ==
    /\ fn_call # None /\ fn_ret = None
    /\ fn_call[1].fn = "_validate_strand" /\ fn_call[1].impl = "validator"
    /\ fn_ret' = Some(validator_validate_strand(
                          fn_call[1].sequence, fn_call[1].all_sequences,
                          parse_params("default"), fn_call[1].validation_settings))
    /\ UNCHANGED <<fn_call, repo_vars, design_vars, store_vars, opt_vars, score_vars>>

\* one call of OligoDesigner.validate_sequence
call_validate_sequence ==
    /\ fn_call # None /\ fn_ret = None
    /\ fn_call[1].fn = "validate_sequence"
    /\ fn_ret' = Some(validate_sequence(fn_call[1].table, fn_call[1].sequence,
                                        fn_call[1].settings))
    /\ UNCHANGED <<fn_call, repo_vars, design_vars, store_vars, opt_vars, score_vars>>

\* one call of SequenceValidator.validate_gc_content
call_validate_gc_content ==
    /\ fn_call # None /\ fn_ret = None
    /\ fn_call[1].fn = "validate_gc_content"
    /\ fn_ret' = Some(validate_gc_content(fn_call[1].sequence, fn_call[1].min_gc,
                                          fn_call[1].max_gc))
    /\ UNCHANGED <<fn_call, repo_vars, design_vars, store_vars, opt_vars, score_vars>>

NextValidate ==
    \/ call_validate_strand
    \/ call_validator_validate_strand
    \/ call_validate_sequence
    \/ call_validate_gc_content

SpecValidate == InitValidate /\ [][NextValidate]_vars

----------------------------------------------------------------------------
(* SpecDna: the sequence functions reverse_complement, is_palindrome,      *)
(* calculate_hairpin_dg and calculate_dimer_dg called on bounded strings   *)

\* every string over {A,T,G,C} of at most MaxDnaLen characters
DnaStrings == UNION {[1..n -> Bases] : n \in 0..MaxDnaLen}

\* two three-base arms over {A,T} around a loop of C of 3..MaxLoopLen bases
HairpinSequences ==
    {a \o [i \in 1..n |-> "C"] \o b :
        a \in [1..3 -> {"A", "T"}], b \in [1..3 -> {"A", "T"}],
        n \in 3..MaxLoopLen}

\* the sequences given to calculate_dimer_dg: every three-base string, two
\* strings too short to align, and the strings over {A,T} of 4..MaxDimerLen
DimerSequences ==
    {<<>>, <<"A">>} \cup [1..3 -> Bases]
    \cup UNION {[1..n -> {"A", "T"}] : n \in 4..MaxDimerLen}

\* temperatures in degrees Celsius; at 200 the correction outweighs three
\* matches
DimerTemperatures == {25, 37, 200}

\* the strings given to is_palindrome: the bounded strings and the strings
\* over {A,G} one character longer
PalindromeStrings == DnaStrings \cup [1..(MaxDnaLen + 1) -> {"A", "G"}]

ReverseComplementImpls == {"OligoDesigner", "dna_utils", "Domain"}

DnaCalls ==
    {[fn |-> "reverse_complement", impl |-> m, seq |-> q] :
        m \in {"OligoDesigner", "dna_utils"}, q \in DnaStrings}
    \cup
    {[fn |-> "reverse_complement", impl |-> "Domain", seq |-> q] :
        q \in {d \in DnaStrings : is_valid(d)}}
    \cup
    {[fn |-> "calculate_hairpin_dg", impl |-> "webapp", seq |-> q] :
        q \in DnaStrings \cup HairpinSequences}
    \cup
    {[fn |-> "calculate_dimer_dg", impl |-> "webapp", seq1 |-> a, seq2 |-> b,
      temp |-> 37] : a \in DimerSequences, b \in DimerSequences}
    \cup
    {[fn |-> "calculate_dimer_dg", impl |-> "core", seq1 |-> a, seq2 |-> b,
      temp |-> t] :
        a \in DimerSequences, b \in DimerSequences, t \in DimerTemperatures}
    \cup
    {[fn |-> "is_palindrome", impl |-> "dna_utils", seq |-> q] :
        q \in PalindromeStrings}
    \cup
    {[fn |-> "is_palindrome", impl |-> "Domain", seq |-> q] :
        q \in {d \in PalindromeStrings : is_valid(d)}}

InitDna ==
    /\ fn_call \in {Some(c) : c \in DnaCalls}
    /\ fn_ret = None
    /\ IdleRepo /\ IdleDesign /\ IdleOpt /\ IdleScore

\* the value the next reverse_complement is applied to: the argument of the
\* call, then the result before
reverse_complement_argument ==
    IF fn_ret = None
    THEN IF fn_call[1].impl = "Domain" THEN Domain("d", fn_call[1].seq)
         ELSE fn_call[1].seq
    ELSE fn_ret[1][Len(fn_ret[1])]

reverse_complement_results ==
    IF fn_ret = None THEN <<>> ELSE fn_ret[1]

\* OligoDesigner.reverse_complement(s), then once more on its result
call_reverse_complement ==
    /\ fn_call # None /\ fn_call[1].fn = "reverse_complement"
    /\ fn_call[1].impl = "OligoDesigner"
    /\ Len(reverse_complement_results) < 2
    /\ fn_ret' = Some(Append(reverse_complement_results,
                             reverse_complement(reverse_complement_argument)))
    /\ UNCHANGED <<fn_call, repo_vars, design_vars, store_vars, opt_vars, score_vars>>

\* dna_utils.reverse_complement(seq), then once more on its result
call_dna_utils_reverse_complement ==
    /\ fn_call # None /\ fn_call[1].fn = "reverse_complement"
    /\ fn_call[1].impl = "dna_utils"
    /\ Len(reverse_complement_results) < 2
    /\ fn_ret' = Some(Append(reverse_complement_results,
                             dna_utils_reverse_complement(reverse_complement_argument)))
    /\ UNCHANGED <<fn_call, repo_vars, design_vars, store_vars, opt_vars, score_vars>>

\* Domain('d', seq).reverse_complement(), then once more on its result
call_Domain_reverse_complement ==
    /\ fn_call # None /\ fn_call[1].fn = "reverse_complement"
    /\ fn_call[1].impl = "Domain"
    /\ Len(reverse_complement_results) < 2
    /\ fn_ret' = Some(Append(reverse_complement_results,
                             Domain_reverse_complement(reverse_complement_argument)))
    /\ UNCHANGED <<fn_call, repo_vars, design_vars, store_vars, opt_vars, score_vars>>

\* one call of ThermodynamicCalculator.calculate_hairpin_dg
call_calculate_hairpin_dg ==
    /\ fn_call # None /\ fn_ret = None
    /\ fn_call[1].fn = "calculate_hairpin_dg"
    /\ fn_ret' = Some(calculate_hairpin_dg(fn_call[1].seq))
    /\ UNCHANGED <<fn_call, repo_vars, design_vars, store_vars, opt_vars, score_vars>>

\* the results of the calls of calculate_dimer_dg made so far
dimer_results == IF fn_ret = None THEN <<>> ELSE fn_ret[1]

\* webapp calculate_dimer_dg(seq1, seq2, temp), then with the two sequences
\* exchanged; temp is not used
call_calculate_dimer_dg ==
    /\ fn_call # None /\ fn_call[1].fn = "calculate_dimer_dg"
    /\ fn_call[1].impl = "webapp"
    /\ Len(dimer_results) < 2
    /\ fn_ret' = Some(Append(dimer_results,
                             IF dimer_results = <<>>
                             THEN calculate_dimer_dg(fn_call[1].seq1, fn_call[1].seq2)
                             ELSE calculate_dimer_dg(fn_call[1].seq2, fn_call[1].seq1)))
    /\ UNCHANGED <<fn_call, repo_vars, design_vars, store_vars, opt_vars, score_vars>>

\* core calculate_dimer_dg(seq1, seq2, temp), then with the two sequences
\* exchanged
call_core_calculate_dimer_dg ==
    /\ fn_call # None /\ fn_call[1].fn = "calculate_dimer_dg"
    /\ fn_call[1].impl = "core"
    /\ Len(dimer_results) < 2
    /\ fn_ret' = Some(Append(dimer_results,
                             IF dimer_results = <<>>
                             THEN core_calculate_dimer_dg(fn_call[1].seq1,
                                                          fn_call[1].seq2,
                                                          fn_call[1].temp)
                             ELSE core_calculate_dimer_dg(fn_call[1].seq2,
                                                          fn_call[1].seq1,
                                                          fn_call[1].temp)))
    /\ UNCHANGED <<fn_call, repo_vars, design_vars, store_vars, opt_vars, score_vars>>

\* one call of dna_utils.is_palindrome
call_is_palindrome ==
    /\ fn_call # None /\ fn_ret = None
    /\ fn_call[1].fn = "is_palindrome" /\ fn_call[1].impl = "dna_utils"
    /\ fn_ret' = Some(is_palindrome(fn_call[1].seq))
    /\ UNCHANGED <<fn_call, repo_vars, design_vars, store_vars, opt_vars, score_vars>>

\* one call of Domain('d', seq).is_palindrome()
call_Domain_is_palindrome ==
    /\ fn_call # None /\ fn_ret = None
    /\ fn_call[1].fn = "is_palindrome" /\ fn_call[1].impl = "Domain"
    /\ fn_ret' = Some(Domain_is_palindrome(Domain("d", fn_call[1].seq)))
    /\ UNCHANGED <<fn_call, repo_vars, design_vars, store_vars, opt_vars, score_vars>>

NextDna ==
    \/ call_calculate_dimer_dg
    \/ call_core_calculate_dimer_dg
    \/ call_is_palindrome
    \/ call_Domain_is_palindrome
    \/ call_reverse_complement
    \/ call_dna_utils_reverse_complement
    \/ call_Domain_reverse_complement
    \/ call_calculate_hairpin_dg

SpecDna == InitDna /\ [][NextDna]_vars

----------------------------------------------------------------------------
(* SpecConstruct: construct_oligo_from_shorter, one step for each pass of    *)
(* its while loop                                                          *)

\* what a key of the index can hold: oligos of the key's length, or an
\* empty string and an oligo of another length
IndexContents(l) == {OligosOfLength(l), {<<>>, OligoCAGTT}}

ConstructIndexes ==
    UNION {{f \in [S -> UNION {IndexContents(l) : l \in S}] :
                \A l \in S : f[l] \in IndexContents(l)} :
              S \in SUBSET (0..MaxPoolLen)}

\* the frame of a call: pc is "call" before the first statement and "loop"
\* at the test of the while loop
Frame(target_length, pc, suitable_lengths, constructed_sequence, remaining_length) ==
    [fn |-> "construct_oligo_from_shorter", target_length |-> target_length,
     pc |-> pc, suitable_lengths |-> suitable_lengths,
     constructed_sequence |-> constructed_sequence,
     remaining_length |-> remaining_length]

InitConstruct ==
    /\ oligos \in ConstructIndexes
    /\ fn_call \in {Some(Frame(l, "call", {}, <<>>, l)) : l \in 1..MaxTarget}
    /\ fn_ret = None
    /\ domain_cache = <<>> /\ strands = <<>> /\ thal = "quiet"
    /\ opt_req = <<>> /\ generation = 0
    /\ valid_strand_sets = <<>> /\ opt_response = <<>>
    /\ IdleRepo /\ IdleDesign /\ IdleScore

\* construct_oligo_from_shorter down to the while loop
construct_enter ==
    /\ fn_call # None /\ fn_ret = None /\ fn_call[1].pc = "call"
    /\ LET target_length == fn_call[1].target_length
           available_lengths == get_all_oligo_lengths
           suitable_lengths == {l \in available_lengths : l < target_length}
           longer_lengths == {l \in available_lengths : l > target_length}
       IN  IF available_lengths = {}
           THEN fn_ret' = Some(None) /\ UNCHANGED fn_call
           ELSE IF suitable_lengths = {}
           THEN /\ UNCHANGED fn_call
                /\ IF longer_lengths = {} THEN fn_ret' = Some(None)
                   ELSE IF get_oligos_by_length(SetMin(longer_lengths)) = {}
                   THEN fn_ret' = Some(None)
                   ELSE \E selected_oligo \in
                             get_oligos_by_length(SetMin(longer_lengths)) :
                           fn_ret' = Some(Some(PySliceTo(selected_oligo,
                                                         target_length)))
           ELSE /\ fn_call' = Some(Frame(target_length, "loop", suitable_lengths,
                                         <<>>, target_length))
                /\ UNCHANGED fn_ret
    /\ UNCHANGED <<repo_vars, design_vars, store_vars, opt_vars, score_vars>>

\* one pass of "while remaining_length > 0"
construct_pass ==
    /\ fn_call # None /\ fn_ret = None /\ fn_call[1].pc = "loop"
    /\ fn_call[1].remaining_length > 0
    /\ LET f == fn_call[1]
           fitting == {l \in f.suitable_lengths : l <= f.remaining_length}
           best_length == IF fitting = {} \/ SetMax(fitting) = 0
                          THEN SetMin(f.suitable_lengths) ELSE SetMax(fitting)
       IN  IF get_oligos_by_length(best_length) = {}
           THEN fn_ret' = Some(None) /\ UNCHANGED fn_call
           ELSE \E selected_oligo \in get_oligos_by_length(best_length) :
                  /\ fn_call' =
                       IF f.remaining_length >= Len(selected_oligo)
                       THEN Some(Frame(f.target_length, "loop", f.suitable_lengths,
                                       f.constructed_sequence \o selected_oligo,
                                       f.remaining_length - Len(selected_oligo)))
                       ELSE Some(Frame(f.target_length, "loop", f.suitable_lengths,
                                       f.constructed_sequence
                                           \o PySliceTo(selected_oligo,
                                                        f.remaining_length),
                                       0))
                  /\ UNCHANGED fn_ret
    /\ UNCHANGED <<repo_vars, design_vars, store_vars, opt_vars, score_vars>>

\* the loop ends: return constructed_sequence
construct_return ==
    /\ fn_call # None /\ fn_ret = None /\ fn_call[1].pc = "loop"
    /\ fn_call[1].remaining_length <= 0
    /\ fn_ret' = Some(Some(fn_call[1].constructed_sequence))
    /\ UNCHANGED <<fn_call, repo_vars, design_vars, store_vars, opt_vars, score_vars>>

NextConstruct == construct_enter \/ construct_pass \/ construct_return

\* the call runs on its own thread of control: a statement that can execute
\* does execute
SpecConstruct ==
    InitConstruct /\ [][NextConstruct]_vars /\ WF_vars(NextConstruct)

----------------------------------------------------------------------------
(* SpecStore: the endpoints of backend/app.py that read and write            *)
(* domain_cache and strands, served by concurrent request threads            *)

\* the request threads of the server
StoreThreads == {"t1", "t2"}

\* names and lengths the requests carry
StoreNames == {<<>>, Name("a"), Star(Name("a"))}
StoreLengths == {0, 5, 6}
StoreDomainLists == {<<>>, <<Name("a")>>, <<Name("a"), Star(Name("a"))>>}
StoreStrandIds ==
    {<<>>, <<2, 1>>} \cup {<<sid>> : sid \in 1..MaxStrandId}

\* check_can_construct_length
check_can_construct_length(target_length, available_lengths) ==
    /\ available_lengths # {}
    /\ \/ target_length \in available_lengths
       \/ \E length \in available_lengths : length > target_length
       \/ \E length \in available_lengths : length < target_length

\* add_domain up to "domain_cache[name] = length": the error it returns, or
\* "" when every check passes
add_domain_error(name, length) ==
    IF name = <<>> THEN "Domain name is required"
    ELSE IF length < 1 \/ length > 100
    THEN "Domain length must be between 1 and 100"
    ELSE IF RStrip(name) \in DOMAIN domain_cache THEN "already exists in cache"
    ELSE IF get_all_oligo_lengths = {} THEN "No oligos found in Redis database"
    ELSE IF ~check_can_construct_length(length, get_all_oligo_lengths)
    THEN "Cannot construct oligo"
    ELSE ""

Response(op, success, error) == [op |-> op, success |-> success, error |-> error]

\* add_domain from the request to the last check; the calls of Redis in
\* get_all_oligo_lengths are where another thread can run
add_domain_check(t) ==
    /\ fn_call[t] = None
    /\ \E name \in StoreNames, length \in StoreLengths :
          IF add_domain_error(name, length) # ""
          THEN /\ fn_ret' = Some(Response("add_domain", FALSE,
                                           add_domain_error(name, length)))
               /\ UNCHANGED fn_call
          ELSE /\ fn_call' = [fn_call EXCEPT
                                ![t] = Some([name |-> RStrip(name),
                                             length |-> length])]
               /\ fn_ret' = None
    /\ UNCHANGED <<repo_vars, design_vars, store_vars, opt_vars, score_vars>>

\* add_domain: "domain_cache[name] = length" and the success response
add_domain_write(t) ==
    /\ fn_call[t] # None
    /\ domain_cache' = (fn_call[t][1].name :> fn_call[t][1].length) @@ domain_cache
    /\ fn_call' = [fn_call EXCEPT ![t] = None]
    /\ fn_ret' = Some(Response("add_domain", TRUE, ""))
    /\ UNCHANGED <<strands, oligos, thal>>
    /\ UNCHANGED <<repo_vars, design_vars, opt_vars, score_vars>>

\* remove_cache_domain(domain_name)
remove_cache_domain ==
    /\ \E domain_name \in StoreNames :
          domain_cache' = [n \in DOMAIN domain_cache \ {domain_name} |->
                              domain_cache[n]]
    /\ fn_ret' = Some(Response("remove_cache_domain", TRUE, ""))
    /\ UNCHANGED <<fn_call, strands, oligos, thal>>
    /\ UNCHANGED <<repo_vars, design_vars, opt_vars, score_vars>>

\* str(uuid.uuid4()): a new key, behind every key of the dict
new_strand_id == IF DOMAIN strands = {} THEN 1 ELSE SetMax(DOMAIN strands) + 1

\* add_strand
add_strand ==
    /\ new_strand_id <= MaxStrandId
    /\ \E domains \in StoreDomainLists :
          IF domains = <<>>
          THEN /\ fn_ret' = Some(Response("add_strand", FALSE,
                                           "At least one domain is required"))
               /\ UNCHANGED strands
          ELSE IF \E j \in 1..Len(domains) :
                     RStrip(domains[j]) \notin DOMAIN domain_cache
          THEN /\ fn_ret' = Some(Response("add_strand", FALSE,
                                           "not found in cache"))
               /\ UNCHANGED strands
          ELSE /\ strands' = (new_strand_id :>
                                 [name |-> "s", domains |-> domains]) @@ strands
               /\ fn_ret' = Some(Response("add_strand", TRUE, ""))
    /\ UNCHANGED <<fn_call, domain_cache, oligos, thal>>
    /\ UNCHANGED <<repo_vars, design_vars, opt_vars, score_vars>>

\* delete_strand(strand_id)
delete_strand ==
    /\ \E strand_id \in 1..MaxStrandId :
          strands' = [sid \in DOMAIN strands \ {strand_id} |-> strands[sid]]
    /\ fn_ret' = Some(Response("delete_strand", TRUE, ""))
    /\ UNCHANGED <<fn_call, domain_cache, oligos, thal>>
    /\ UNCHANGED <<repo_vars, design_vars, opt_vars, score_vars>>

\* generate_strands: every domain_assignments the first loop can build; a
\* base name that is not cached or draws nothing gets no entry
generate_assignments(required) ==
    LET cached == {b \in required : b \in DOMAIN domain_cache}
    IN  {[base |-> [b \in {c \in cached : e[c] # None /\ e[c] # Some(<<>>)} |->
                       e[b]]] :
            e \in {f \in [cached -> UNION {base_draws(b) : b \in cached}] :
                      \A b \in cached : f[b] \in base_draws(b)}}

\* strands[strand_id]['sequence'] = ...; ['validation_results'] = ...
with_sequence(record, strand_seq, strand_validation) ==
    [name |-> record.name, domains |-> record.domains,
     sequence |-> strand_seq, validation_results |-> strand_validation]

RECURSIVE generate_loop(_, _, _, _, _)
\* the loop "for strand in target_strands" of generate_strands from target
\* number i on: the strands store it leaves, and whether it raised.  A
\* target is the record object stored under its id; the record to update is
\* next(sid for sid, s in strands.items() if s == strand), the first key
\* whose record equals the target
generate_loop(store, target_ids, i, assignment, settings) ==
    IF i > Len(target_ids) THEN [raised |-> FALSE, store |-> store]
    ELSE
    LET strand == store[target_ids[i]]
        can_build == \A j \in 1..Len(strand.domains) :
                        assigned(assignment, strand.domains[j])
        strand_seq == IF can_build
                      THEN Concat([j \in 1..Len(strand.domains) |->
                              domain_assignments(assignment, strand.domains[j])])
                      ELSE <<>>
        strand_validation == validate_sequence(thal, strand_seq, settings)
        strand_id == SetMin({sid \in DOMAIN store : store[sid] = strand})
    IN  IF ~(can_build /\ strand_seq # <<>>)
        THEN generate_loop(store, target_ids, i + 1, assignment, settings)
        ELSE IF strand_validation.raised THEN [raised |-> TRUE, store |-> store]
        ELSE generate_loop(
                 [store EXCEPT ![strand_id] =
                     with_sequence(store[strand_id], strand_seq,
                                   strand_validation.results)],
                 target_ids, i + 1, assignment, settings)

\* generate_strands
generate_strands ==
    /\ \E strand_ids \in StoreStrandIds :
          LET target_ids == SelectSeq(strand_ids,
                                      LAMBDA sid : sid \in DOMAIN strands)
              targets == [i \in 1..Len(target_ids) |-> strands[target_ids[i]]]
          IN  IF target_ids = <<>>
              THEN /\ fn_ret' = Some([op |-> "generate_strands",
                                      success |-> FALSE,
                                      error |-> "No strands selected",
                                      strand_ids |-> strand_ids])
                   /\ UNCHANGED strands
              ELSE \E assignment \in generate_assignments(required_domains(targets)) :
                     LET done == generate_loop(strands, target_ids, 1, assignment,
                                               StandardSettings)
                     IN  /\ strands' = done.store
                         /\ fn_ret' = Some([op |-> "generate_strands",
                                            success |-> ~done.raised,
                                            error |-> "",
                                            strand_ids |-> strand_ids])
    /\ UNCHANGED <<fn_call, domain_cache, oligos, thal>>
    /\ UNCHANGED <<repo_vars, design_vars, opt_vars, score_vars>>

InitStore ==
    /\ domain_cache = <<>> /\ strands = <<>>
    /\ oligos = (6 :> {OligoGATCCA})
    /\ thal = "quiet"
    /\ fn_call = [t \in StoreThreads |-> None]
    /\ fn_ret = None
    /\ opt_req = <<>> /\ generation = 0
    /\ valid_strand_sets = <<>> /\ opt_response = <<>>
    /\ IdleRepo /\ IdleDesign /\ IdleScore

NextStore ==
    \/ \E t \in StoreThreads : add_domain_check(t)
    \/ \E t \in StoreThreads : add_domain_write(t)
    \/ remove_cache_domain
    \/ add_strand
    \/ delete_strand
    \/ generate_strands

SpecStore == InitStore /\ [][NextStore]_vars

----------------------------------------------------------------------------
(* Claims about get_orthogonal_sequence (SpecRepo)                         *)

\* C2: get_orthogonal_sequence(length, gc_target, exclude_sequences) returns,
\* for every length >= 1 and every gc_target in 0..100, a string of exactly
\* `length` characters, all in {A,T,G,C}, from the pool or synthesized.
\* Violated: the four pool entries filed under length 25 have 24 characters.
C2_ExactLengthAndAlphabet ==
    (repo_ret # None /\ repo_call[1].length >= 1
        /\ repo_call[1].gc_target \in 0..100)
        => /\ Len(repo_ret[1]) = repo_call[1].length
           /\ ValidAlphabet(repo_ret[1])

\* C12: get_orthogonal_sequence never returns a member of exclude_sequences,
\* whether the result comes from the pool or from synthesis.
\* Violated: backend/core synthesizes without looking at exclude_sequences,
\* and the webapp returns an unchecked draw when every draw is excluded.
C12_NeverReturnsExcluded ==
    repo_ret # None => repo_ret[1] \notin Range(repo_call[1].exclude_sequences)

----------------------------------------------------------------------------
(* Claims about design_strand (SpecDesign)                                 *)

Returned(impl) ==
    /\ design_result # None
    /\ design_req[1].impl = impl

Succeeded(impl) == Returned(impl) /\ design_result[1].success

\* a request inside the input contract: at least one domain spec, each with a name and a
\* length > 0, a fixed_sequence has the stated length, default parameters
WellFormedRequest ==
    /\ design_req # None
    /\ design_req[1].global_params = "default"
    /\ design_req[1].domains # <<>>
    /\ \A i \in 1..Len(design_req[1].domains) :
          LET d == design_req[1].domains[i]
          IN  /\ d.has_name /\ d.has_length /\ d.length >= 1
              /\ d.fixed_sequence # <<>> => Len(d.fixed_sequence) = d.length

\* C1: for every successful DesignResult of the webapp design_strand,
\* len(strand.sequence) equals the sum of the length fields of
\* strand.domains (stated here for requests inside the input contract).
\* Violated: a domain of length 25 is given a 24-character pool sequence.
C1_SequenceLengthIsSumOfDomainLengths ==
    (Succeeded("webapp") /\ WellFormedRequest)
        => LET strand == design_result[1].strand[1]
           IN  Len(strand.sequence)
                 = SumSeq([i \in 1..Len(strand.domains) |->
                              strand.domains[i].length])

\* C3: in the webapp design_strand a domain whose name carries the
\* reverse-complement marker resolves to the exact reverse complement of the
\* resolved sequence of its paired forward domain in the same strand.
\* Violated: 'A*' is drawn from the repository like any other domain.
C3_MarkedDomainIsReverseComplement ==
    (Succeeded("webapp") /\ WellFormedRequest)
        => LET ds == design_result[1].strand[1].domains
           IN  \A i, j \in 1..Len(ds) :
                  (IsComplementName(ds[i].name) /\ ds[j].name = RStrip(ds[i].name)
                      /\ ValidAlphabet(ds[j].generated_sequence[1]))
                  => ds[i].generated_sequence[1]
                        = reverse_complement(ds[j].generated_sequence[1])

\* C8: design_strand of backend/core returns success=True for every
\* well-formed request.
\* Violated: _validate_strand hands params to the validator as max_dg, the
\* comparison raises TypeError and every request ends in success=False.
C8_CoreWellFormedRequestSucceeds ==
    (Returned("core") /\ WellFormedRequest) => design_result[1].success

\* C9: design_strand (webapp and backend/core) always returns a DesignResult;
\* one with success=False carries no strand and no validation, one with
\* success=True carries a strand whose domains all have a generated_sequence.
C9_FailureCarriesNothingSuccessIsComplete ==
    /\ (design_req # None /\ design_result = None) =>
          LET r == design_req[1]
          IN  IF r.impl = "webapp"
              THEN webapp_design_strand(r.strand_name, r.domains, r.global_params) # {}
              ELSE core_design_strand(r.strand_name, r.domains, r.global_params) # {}
    /\ design_result # None =>
          LET r == design_result[1]
          IN  /\ ~r.success => (r.strand = None /\ r.validation = None)
              /\ r.success =>
                    /\ r.strand # None /\ r.validation # None
                    /\ Len(r.strand[1].domains) = Len(design_req[1].domains)
                    /\ \A i \in 1..Len(r.strand[1].domains) :
                          r.strand[1].domains[i].generated_sequence # None

\* C9 witness: a request whose only domain was resolved and whose validation
\* then raised (salt_conc = 0) came back as a failure
C9_Witness ==
    /\ Returned("webapp")
    /\ design_req[1].global_params = "zero_salt"
    /\ Len(design_req[1].domains) = 1
    /\ design_req[1].domains[1].name = <<"A">>
    /\ ~design_result[1].success
    /\ design_result[1].error_message = "ValueError: math domain error"

\* C10: design_strand given a domain whose fixed_sequence has a character
\* outside {A,T,G,C} after upper-casing returns success=False, so a
\* successful strand's sequence is over {A,T,G,C}.
\* Violated: the fixed sequence is used verbatim and the design succeeds.
C10_ForeignCharacterFails ==
    Returned("webapp") =>
        /\ (\E i \in 1..Len(design_req[1].domains) :
               ~ValidAlphabet(Upper(design_req[1].domains[i].fixed_sequence)))
              => ~design_result[1].success
        /\ design_result[1].success
              => ValidAlphabet(design_result[1].strand[1].sequence)

\* C11: the webapp design_strand given a domain spec whose length is zero or
\* negative returns success=False, whatever the other domains are.
\* Violated: the repository answers such a length with the empty string, and
\* next to a domain of positive length the design succeeds.
C11_NonPositiveLengthFails ==
    (Returned("webapp")
        /\ \E i \in 1..Len(design_req[1].domains) :
              /\ design_req[1].domains[i].has_length
              /\ design_req[1].domains[i].length <= 0)
        => ~design_result[1].success

----------------------------------------------------------------------------
(* Claims about generate_optimized_strand_sets (SpecOpt)                   *)

OptReturned == opt_response # None /\ opt_response[1].success

\* the trials the program holds or has returned
KnownTrials ==
    Range(valid_strand_sets)
        \cup (IF OptReturned THEN Range(opt_response[1].top_strand_sets) ELSE {})

\* C4: every trial that generate_optimized_strand_sets retains or returns in
\* top_strand_sets has one strand per target strand, each with
\* overall_valid = True, and no cross-dimer entry below the configured
\* cross_dimer_dg threshold (default -8.0).
C4_RetainedTrialsAreValid ==
    \A t \in KnownTrials :
        /\ Len(t.strands) = Len(target_strands(opt_req[1].strand_ids))
        /\ \A i \in 1..Len(t.strands) : t.strands[i].validation.overall_valid
        /\ \A k \in 1..Len(t.cross_dimer_results) :
              t.cross_dimer_results[k].dg
                  >= SettingOr(opt_req[1].settings.cross_dimer_dg, -8000)

\* C4 witness: a response that returns a trial with cross-dimer entries
\* after another generation was dropped
C4_Witness ==
    /\ OptReturned
    /\ opt_response[1].total_valid < opt_response[1].total_generated
    /\ \E i \in 1..Len(opt_response[1].top_strand_sets) :
          /\ Len(opt_response[1].top_strand_sets[i].strands) = 2
          /\ opt_response[1].top_strand_sets[i].cross_dimer_results # <<>>

\* the three categories of a score's breakdown, in 0.001 points
BreakdownSum(score) ==
    score.penalties.thermodynamic_violations
        + score.penalties.three_prime_imbalance
        + score.penalties.cross_dimer_risks

\* the original statement of C6: for every returned trial the breakdown
\* sums, within the rounding of its four stored numbers, to 100 - total.
C6_BreakdownSumsToHundredMinusTotal ==
    OptReturned =>
        \A i \in 1..Len(opt_response[1].top_strand_sets) :
            LET score == opt_response[1].top_strand_sets[i].score
            IN  Abs(BreakdownSum(score) - (100000 - score.total)) <= 20

\* C6: for every returned trial the three categories sum, within rounding,
\* to total_penalty, and score.total is max(0, 100 - total_penalty): the
\* breakdown sums to 100 - score.total while total_penalty is at most 100,
\* and beyond that score.total is 0.
C6_BreakdownSumsUpToTheFloor ==
    OptReturned =>
        \A i \in 1..Len(opt_response[1].top_strand_sets) :
            LET score == opt_response[1].top_strand_sets[i].score
            IN  /\ Abs(BreakdownSum(score) - score.penalties.total_penalty) <= 20
                /\ IF score.penalties.total_penalty <= 100000
                   THEN Abs(score.penalties.total_penalty
                                - (100000 - score.total)) <= 10
                   ELSE score.total = 0

\* C6 witness: a returned trial whose penalties exceed 100 points
C6_Witness ==
    /\ OptReturned
    /\ \E i \in 1..Len(opt_response[1].top_strand_sets) :
          LET t == opt_response[1].top_strand_sets[i]
          IN  /\ t.score.penalties.total_penalty > 100000
              /\ t.score.penalties.three_prime_imbalance > 0
              /\ t.score.penalties.cross_dimer_risks > 0

\* x is ranked before y: the higher score, and on equal scores the earlier
\* generation
RankedBefore(x, y) ==
    \/ x.score.total > y.score.total
    \/ x.score.total = y.score.total /\ x.generation < y.generation

\* C7: top_strand_sets holds the first 10 (all, if fewer) of the retained
\* trials in the order of descending score.total, equal scores in ascending
\* generation; the (score, generation) pairs alone determine it.
C7_TopSetsAreTheBestInRankOrder ==
    OptReturned =>
        LET top == opt_response[1].top_strand_sets
        IN  /\ Len(top) = Min2(TopK, opt_response[1].total_valid)
            /\ opt_response[1].total_valid = Len(valid_strand_sets)
            /\ Range(top) \subseteq Range(valid_strand_sets)
            /\ \A i, j \in 1..Len(top) : i < j => RankedBefore(top[i], top[j])
            /\ \A t \in Range(valid_strand_sets) \ Range(top) :
                  \A i \in 1..Len(top) : RankedBefore(top[i], t)

\* C7 witness: more than 10 trials were retained, a later generation is
\* returned ahead of an earlier one, two returned trials tie, and a trial
\* that is not returned is older than one that is
C7_Witness ==
    /\ OptReturned
    /\ opt_response[1].total_valid > TopK
    /\ LET top == opt_response[1].top_strand_sets
       IN  /\ \E i \in 1..(Len(top) - 1) :
                 top[i].generation > top[i + 1].generation
           /\ \E i \in 1..(Len(top) - 1) :
                 top[i].score.total = top[i + 1].score.total
           /\ \E t \in Range(valid_strand_sets) \ Range(top) :
                 \E i \in 1..Len(top) : t.generation < top[i].generation

\* what a retained trial holds besides its generation number
TrialContent(t) ==
    [strands |-> t.strands, cross_dimer_results |-> t.cross_dimer_results,
     score |-> t.score]

\* the contents a trial can have when it is the first one of the request
FreshTrials ==
    LET targets == target_strands(opt_req[1].strand_ids)
        outcomes == {run_trial(targets, a, opt_req[1].settings, 0) :
                        a \in draw_assignments(required_domains(targets))}
    IN  {TrialContent(o.trial) : o \in {x \in outcomes : x.kind = "retained"}}

\* C13: generate_optimized_strand_sets is read-only on the shared stores:
\* no step of a request changes domain_cache, the strands store or the oligo
\* index, and a trial of any generation is one the first generation could
\* have produced (it reads nothing an earlier trial wrote).
C13_StoresUntouchedTrialsIndependent ==
    [][/\ domain_cache' = domain_cache
       /\ strands' = strands
       /\ oligos' = oligos
       /\ Len(valid_strand_sets') > Len(valid_strand_sets) =>
             /\ PySliceTo(valid_strand_sets', Len(valid_strand_sets))
                   = valid_strand_sets
             /\ TrialContent(valid_strand_sets'[Len(valid_strand_sets')])
                   \in FreshTrials]_vars

\* C13 witness: two generations of one request retained different trials
C13_Witness ==
    /\ opt_req # None
    /\ generation >= 2
    /\ Len(valid_strand_sets) >= 2
    /\ valid_strand_sets[1].strands # valid_strand_sets[2].strands
    /\ strands = BranchingStores.strands
    /\ domain_cache = BranchingStores.domain_cache

\* some required domain can get no sequence: its name has no cached length,
\* or the index holds no oligo of that length and none can be constructed
SomeDomainUnobtainable ==
    /\ opt_req # None
    /\ LET targets == target_strands(opt_req[1].strand_ids)
       IN  /\ targets # <<>>
           /\ \E b \in required_domains(targets) :
                 \/ b \notin DOMAIN domain_cache
                 \/ \A l \in DOMAIN oligos : \A o \in oligos[l] : o = <<>>

\* C14: when no sequence can be obtained for a required domain, every trial
\* is discarded and no error is raised: nothing is ever retained, and the
\* response is a success with total_generated = num_generations,
\* total_valid = 0 and top_strand_sets = [].
C14_UnobtainableDomainDiscardsEveryTrial ==
    SomeDomainUnobtainable =>
        /\ valid_strand_sets = <<>>
        /\ opt_response # None =>
              /\ opt_response[1].success
              /\ opt_response[1].total_generated = opt_req[1].num_generations
              /\ opt_response[1].total_valid = 0
              /\ opt_response[1].top_strand_sets = <<>>

\* C14 witness: the response to a request over the empty oligo index after
\* more than one generation
C14_Witness ==
    /\ SomeDomainUnobtainable
    /\ oligos = <<>>
    /\ opt_response # None
    /\ opt_req[1].num_generations >= 2
    /\ generation = opt_req[1].num_generations

\* domain_name is a required base name X or X followed by one marker
Assignable(required, domain_name) ==
    \/ domain_name \in required
    \/ /\ domain_name # <<>>
       /\ domain_name[Len(domain_name)] = Marker
       /\ SubSeq(domain_name, 1, Len(domain_name) - 1) \in required

\* the sequence a strand gets from the drawn sequences d of the base names
Assembled(d, domains) ==
    Concat([j \in 1..Len(domains) |->
        IF domains[j] \in DOMAIN d THEN d[domains[j]]
        ELSE reverse_complement(d[SubSeq(domains[j], 1, Len(domains[j]) - 1)])])

\* C21: within one trial of generate_optimized_strand_sets, every strand's
\* sequence is the in-order concatenation of that trial's domain
\* assignments: one drawn sequence for every base domain X, shared by all
\* its occurrences in the trial, and exactly its reverse complement for
\* every occurrence of X*; a trial in which some strand names a domain with
\* no assignment is discarded.
C21_TrialAssembledFromOneAssignment ==
    opt_req # None =>
        LET targets == target_strands(opt_req[1].strand_ids)
            required == required_domains(targets)
            drawn == {o[1] : o \in UNION {base_draws(b) : b \in required} \ {None}}
        IN  \A k \in 1..Len(valid_strand_sets) :
                /\ \A i \in 1..Len(targets) :
                      \A j \in 1..Len(targets[i].domains) :
                          Assignable(required, targets[i].domains[j])
                /\ Len(valid_strand_sets[k].strands) = Len(targets)
                /\ \E d \in [required -> drawn] :
                      /\ \A b \in required : Some(d[b]) \in base_draws(b)
                      /\ \A i \in 1..Len(targets) :
                            /\ valid_strand_sets[k].strands[i].name = targets[i].name
                            /\ valid_strand_sets[k].strands[i].sequence =
                                  Assembled(d, targets[i].domains)

\* C21 witness: a retained trial over s1 = a b* and s2 = a*, where s2 is the
\* reverse complement of the six bases s1 starts with and is not the draw
C21_Witness ==
    /\ opt_req # None
    /\ opt_req[1].strand_ids = <<1, 2>>
    /\ strands = BranchingStores.strands
    /\ valid_strand_sets # <<>>
    /\ LET t == valid_strand_sets[1]
       IN  /\ Len(t.strands) = 2
           /\ Len(t.strands[1].sequence) = 14
           /\ t.strands[2].sequence =
                 reverse_complement(SubSeq(t.strands[1].sequence, 1, 6))
           /\ t.strands[2].sequence # SubSeq(t.strands[1].sequence, 1, 6)

\* the position in cross_dimer_results of the entry for strand i against
\* strand j, i # j, among n strands
PairIndex(n, i, j) == (i - 1) * (n - 1) + (IF j < i THEN j ELSE j - 1)

\* C22: for every retained trial with n strands, cross_dimer_results holds
\* exactly one entry for each ordered pair (A, B) of distinct strand
\* positions, n * (n - 1) entries in all, and the entry's dg is computed from
\* the last 5 nucleotides of A against the full sequence of B (0 when
\* primer3 raises), so (A, B) and (B, A) are evaluated separately.
C22_OneEntryPerOrderedPair ==
    \A t \in 1..Len(valid_strand_sets) :
        LET trial == valid_strand_sets[t]
            n == Len(trial.strands)
            end_against(i, j) ==
                calc_heterodimer(thal, PyLast(trial.strands[i].sequence, 5),
                                 trial.strands[j].sequence)
        IN  /\ Len(trial.cross_dimer_results) = n * (n - 1)
            /\ \A i \in 1..n : \A j \in (1..n) \ {i} :
                  trial.cross_dimer_results[PairIndex(n, i, j)] =
                      [strand1 |-> trial.strands[i].name,
                       strand2 |-> trial.strands[j].name,
                       dg |-> IF end_against(i, j).raised THEN 0
                              ELSE end_against(i, j).dg]

\* C22 witness: a retained trial of two strands whose two entries differ in dg
C22_Witness ==
    /\ valid_strand_sets # <<>>
    /\ Len(valid_strand_sets[1].strands) = 2
    /\ Len(valid_strand_sets[1].cross_dimer_results) = 2
    /\ valid_strand_sets[1].cross_dimer_results[1].dg
          # valid_strand_sets[1].cross_dimer_results[2].dg

\* C27: for every trial returned by generate_optimized_strand_sets the
\* score's thermodynamic_violations subtotal is 0 and no cross-dimer pair is
\* charged the critical penalty: the score of a returned trial is determined
\* only by the 3' imbalance and cross-dimer warning penalties.
C27_RetainedTrialsHaveNoViolations ==
    \A k \in 1..Len(valid_strand_sets) :
        LET score == valid_strand_sets[k].score
        IN  /\ score.penalties.thermodynamic_violations = 0
            /\ \A e \in Range(score.penalty_details) :
                  e.kind \in {"three_prime_end", "cross_dimer_risk"}

----------------------------------------------------------------------------
(* Claims about get_random_oligo (SpecOligo)                               *)

\* C15: over an index in which every oligo filed under length L has exactly
\* L characters, get_random_oligo and construct_oligo_from_shorter return,
\* for every target length >= 1, either None or a sequence of exactly the
\* target length.
C15_NoneOrExactlyTargetLength ==
    (fn_ret # None
        /\ fn_call[1].fn \in {"get_random_oligo", "construct_oligo_from_shorter"})
        => \/ fn_ret[1] = None
           \/ Len(fn_ret[1][1]) = fn_call[1].length

\* C15 witness: a target of 5 joined from oligos of length 2, the last one
\* cut to one base
C15_Witness ==
    /\ fn_ret # None /\ fn_ret[1] # None
    /\ fn_call[1].fn = "get_random_oligo"
    /\ fn_call[1].length = 5
    /\ DOMAIN oligos = {2}
    /\ Len(fn_ret[1][1]) = 5

----------------------------------------------------------------------------
(* Claims about construct_oligo_from_shorter (SpecConstruct)               *)

\* progress of the loop: each pass of the loop of
\* construct_oligo_from_shorter either returns or strictly decreases
\* remaining_length, which never becomes negative
C29_EachPassReturnsOrDecreases ==
    [][(fn_call # None /\ fn_call[1].pc = "loop") =>
          \/ fn_ret' # None
          \/ /\ fn_call'[1].remaining_length < fn_call[1].remaining_length
             /\ fn_call'[1].remaining_length >= 0]_vars

\* C29: construct_oligo_from_shorter terminates for every target_length >= 1
\* and every pool content: every call returns, and each pass of its loop
\* either returns or strictly decreases remaining_length, which never becomes
\* negative.
C29_ConstructTerminates ==
    <>(fn_ret # None) /\ C29_EachPassReturnsOrDecreases

\* C29 witness: a call returned a sequence of the target length that is
\* longer than every oligo of the index, joined in more than one pass
C29_Witness ==
    /\ fn_call # None /\ fn_call[1].fn = "construct_oligo_from_shorter"
    /\ fn_call[1].pc = "loop"
    /\ fn_ret # None /\ fn_ret[1] # None
    /\ Len(fn_ret[1][1]) = fn_call[1].target_length
    /\ \A l \in DOMAIN oligos : \A o \in oligos[l] :
          Len(o) < fn_call[1].target_length - 1

----------------------------------------------------------------------------
(* Claims about the validators (SpecValidate)                              *)

\* a call of the named helper has returned
FnReturned(fn) == fn_ret # None /\ fn_call[1].fn = fn

\* the check names validation_settings enables
EnabledChecks(validation_settings) ==
    (IF validation_settings.melting_temp THEN {"melting_temperature"} ELSE {})
    \cup (IF validation_settings.hairpin THEN {"hairpin_formation"} ELSE {})
    \cup (IF validation_settings.self_dimer THEN {"self_dimerization"} ELSE {})
    \cup (IF validation_settings.cross_dimer THEN {"cross_dimerization"} ELSE {})
    \cup (IF validation_settings.gc_content THEN {"gc_content"} ELSE {})

\* C16: the verdict is the AND of the individual checks.  A ValidationResult
\* that _validate_strand returns (webapp and validator.py) has overall_pass
\* true exactly when every check in checks has pass_check true; the webapp
\* holds all six checks, validator.py exactly the enabled ones.
\* validate_sequence's overall_valid is true exactly when its six checks all
\* have valid true.
C16_VerdictIsConjunctionOfChecks ==
    /\ (FnReturned("_validate_strand") /\ ~fn_ret[1].raised) =>
          LET v == fn_ret[1].validation
          IN  /\ v.overall_pass <=>
                    (\A k \in DOMAIN v.checks : v.checks[k].pass_check)
              /\ fn_call[1].impl = "webapp" =>
                    DOMAIN v.checks =
                        {"melting_temperature", "hairpin_formation",
                         "self_dimerization", "cross_dimerization",
                         "gc_content", "primer_3_end"}
              /\ fn_call[1].impl = "validator" =>
                    DOMAIN v.checks = EnabledChecks(fn_call[1].validation_settings)
    /\ (FnReturned("validate_sequence") /\ ~fn_ret[1].raised) =>
          LET r == fn_ret[1].results
          IN  r.overall_valid <=>
                 /\ r.gc_content.valid /\ r.melting_temp.valid
                 /\ r.hairpin_dg.valid /\ r.self_dimer_dg.valid
                 /\ r.three_prime_hairpin.valid /\ r.three_prime_self_dimer.valid

\* C16 witness: a webapp validation in which some checks pass, another fails
\* and the verdict is a fail
C16_Witness ==
    /\ FnReturned("_validate_strand")
    /\ fn_call[1].impl = "webapp"
    /\ ~fn_ret[1].raised
    /\ ~fn_ret[1].validation.overall_pass
    /\ fn_ret[1].validation.checks.gc_content.pass_check
    /\ fn_ret[1].validation.checks.hairpin_formation.pass_check
    /\ ~fn_ret[1].validation.checks.melting_temperature.pass_check

\* min_percent <= GC% <= max_percent for the exact GC percentage of the
\* sequence (0 for the empty string)
ExactGcInRange(sequence, min_percent, max_percent) ==
    IF sequence = <<>> THEN min_percent <= 0 /\ 0 <= max_percent
    ELSE /\ min_percent * Len(sequence) <= 100 * GcCount(sequence)
         /\ 100 * GcCount(sequence) <= max_percent * Len(sequence)

\* C17: the GC-content check (validate_gc_content, and the gc_content check
\* of validate_sequence) passes if and only if min_percent <= GC% <=
\* max_percent, inclusive at both boundaries, for every sequence and every
\* pair of bounds.
\* Violated: the percentage is the double (gc_count / len) * 100, which for
\* 11 G/C of 20 is 55.00000000000001, and the check fails at max = 55.
C17_GcCheckInclusiveAtBothBounds ==
    /\ FnReturned("validate_gc_content") =>
          (fn_ret[1].pass_check <=>
              ExactGcInRange(fn_call[1].sequence, fn_call[1].min_gc,
                             fn_call[1].max_gc))
    /\ (FnReturned("validate_sequence") /\ ~fn_ret[1].raised) =>
          (fn_ret[1].results.gc_content.valid <=>
              ExactGcInRange(fn_call[1].sequence, fn_call[1].settings.gc_min[1],
                             fn_call[1].settings.gc_max[1]))

\* the four primer3 checks of a validate_sequence call: what primer3 answers,
\* the threshold the settings give (None: settings[key] is missing) and the
\* sentinel of the except branch
PrimerChecks(table, sequence, settings) ==
    [hairpin_dg |->
        [outcome |-> calc_hairpin(table, sequence),
         threshold |-> settings.hairpin_dg, sentinel |-> -1000],
     self_dimer_dg |->
        [outcome |-> calc_homodimer(table, sequence),
         threshold |-> settings.self_dimer_dg, sentinel |-> -3000],
     three_prime_hairpin |->
        [outcome |-> calc_hairpin(table, PyLast(sequence, 5)),
         threshold |-> Some(SettingOr(settings.three_prime_hairpin_dg, -2000)),
         sentinel |-> 0],
     three_prime_self_dimer |->
        [outcome |-> calc_heterodimer(table, PyLast(sequence, 5), sequence),
         threshold |-> Some(SettingOr(settings.three_prime_self_dimer_dg, -5000)),
         sentinel |-> 0]]

\* the check cannot be evaluated: primer3 raises, or the threshold is missing
Unevaluated(check) == check.outcome.raised \/ check.threshold = None

\* C19: in validate_sequence, when one thermodynamic calculation (hairpin,
\* self-dimer, 3' hairpin or 3' self-dimer) cannot be evaluated, only that
\* check is affected: its value is the fixed sentinel and its valid flag
\* stays true, every other check is evaluated against its threshold, and
\* overall_valid is false exactly when an evaluated check fails.
C19_UnevaluatedCheckIsIsolated ==
    (FnReturned("validate_sequence") /\ ~fn_ret[1].raised) =>
        LET c == fn_call[1]
            r == fn_ret[1].results
            checks == PrimerChecks(c.table, c.sequence, c.settings)
            fails(k) == /\ ~Unevaluated(checks[k])
                        /\ checks[k].outcome.dg < checks[k].threshold[1]
        IN  /\ \A k \in DOMAIN checks :
                  IF Unevaluated(checks[k])
                  THEN r[k].valid /\ r[k].value = checks[k].sentinel
                  ELSE /\ r[k].valid = ~fails(k)
                       /\ r[k].value = Round2(checks[k].outcome.dg)
            /\ r.gc_content.valid =
                  InRange(c.settings.gc_min[1], gc_content(c.sequence),
                          c.settings.gc_max[1])
            /\ r.melting_temp.valid =
                  InRange(c.settings.tm_min[1], melting_temp(c.sequence),
                          c.settings.tm_max[1])
            /\ r.overall_valid =
                  ~(\/ ~r.gc_content.valid
                    \/ ~r.melting_temp.valid
                    \/ \E k \in DOMAIN checks : fails(k))

\* primer3 refuses the whole sequence ATCGATCGAT: the hairpin and self-dimer
\* checks carry their sentinels and stay valid, while the 3' self-dimer check
\* is evaluated and fails the sequence
C19_Witness ==
    /\ FnReturned("validate_sequence") /\ ~fn_ret[1].raised
    /\ fn_call[1].sequence = sequences_by_length(10)[1]
    /\ calc_hairpin(fn_call[1].table, fn_call[1].sequence).raised
    /\ fn_ret[1].results.hairpin_dg = [valid |-> TRUE, value |-> -1000]
    /\ fn_ret[1].results.self_dimer_dg = [valid |-> TRUE, value |-> -3000]
    /\ fn_ret[1].results.gc_content.valid
    /\ fn_ret[1].results.melting_temp.valid
    /\ fn_ret[1].results.three_prime_hairpin.valid
    /\ ~fn_ret[1].results.three_prime_self_dimer.valid
    /\ ~fn_ret[1].results.overall_valid

----------------------------------------------------------------------------
(* Claims about the sequence functions (SpecDna)                           *)

\* C18: reverse_complement(reverse_complement(s)) = s for every string s
\* over {A,T,G,C}, in each implementation: OligoDesigner.reverse_complement,
\* dna_utils.reverse_complement, and the seq of Domain.reverse_complement
\* applied twice.
C18_ReverseComplementIsInvolution ==
    (FnReturned("reverse_complement") /\ Len(fn_ret[1]) = 2) =>
        IF fn_call[1].impl = "Domain"
        THEN fn_ret[1][2].seq = fn_call[1].seq
        ELSE fn_ret[1][2] = fn_call[1].seq

\* Domain('d', 'GAC') gives d* with GTC and then d** with GAC again
C18_Witness ==
    /\ FnReturned("reverse_complement") /\ Len(fn_ret[1]) = 2
    /\ fn_call[1].impl = "Domain"
    /\ fn_call[1].seq = <<"G", "A", "C">>
    /\ fn_ret[1][1] = Domain("d*", <<"G", "T", "C">>)
    /\ fn_ret[1][2] = Domain("d**", <<"G", "A", "C">>)

\* C28: calculate_dimer_dg is symmetric in its two sequences,
\* calculate_dimer_dg(a, b, t) == calculate_dimer_dg(b, a, t) for all sequences
\* a, b and every temperature t, and its result is never positive.
C28_DimerSymmetricNeverPositive ==
    FnReturned("calculate_dimer_dg") =>
        /\ \A k \in 1..Len(fn_ret[1]) : fn_ret[1][k] <= 0
        /\ Len(fn_ret[1]) = 2 => fn_ret[1][2] = fn_ret[1][1]

\* C28 witness: both orders of two sequences of different lengths were
\* computed by the core calculator and gave the same negative energy
C28_Witness ==
    /\ FnReturned("calculate_dimer_dg") /\ Len(fn_ret[1]) = 2
    /\ fn_call[1].impl = "core"
    /\ Len(fn_call[1].seq1) # Len(fn_call[1].seq2)
    /\ fn_ret[1][1] < 0 /\ fn_ret[1][2] = fn_ret[1][1]

\* C30: dna_utils.is_palindrome(s) returns True exactly when s equals its
\* reverse, and False otherwise, for every string s.
C30_IsPalindromeDecidesReversal ==
    FnReturned("is_palindrome") =>
        fn_ret[1] = Some(fn_call[1].seq = Reverse(fn_call[1].seq))

\* the splits of calculate_hairpin_dg that qualify: a loop of at least 3 and
\* at least 3 complementary pairs between the arms
qualifying_splits(sequence) ==
    {sp \in hairpin_splits(sequence) :
        sp[2] >= 3 /\ hairpin_matches(sequence, sp[1], sp[2]) >= 3}

\* C20: calculate_hairpin_dg returns the most negative estimated energy over
\* all stem/loop splits that qualify, and returns 0 exactly when no split
\* qualifies.
\* Violated: AAACCCCTTT has one qualifying split, estimated at +0.5, and the
\* function returns 0; no estimate is ever below 0, because the arms are
\* compared over 3 bases only.
C20_MostNegativeQualifyingSplit ==
    FnReturned("calculate_hairpin_dg") =>
        LET q == qualifying_splits(fn_call[1].seq)
        IN  IF q = {} THEN fn_ret[1] = 0
            ELSE /\ fn_ret[1] # 0
                 /\ fn_ret[1] =
                       SetMin({hairpin_dg_total(
                                   hairpin_matches(fn_call[1].seq, sp[1], sp[2]),
                                   sp[2]) : sp \in q})

----------------------------------------------------------------------------
(* Claims about domain_cache and the strands store (SpecStore)             *)

\* C24: domain names in the cache are unique by first writer: an add_domain
\* request for a name already cached is rejected and leaves the cached
\* length unchanged, and under any interleaving of concurrent add_domain
\* requests for the same name at most one returns success.  As a property of
\* every step: add_domain returns success only for a name that is not
\* cached, and the length cached under a name does not change.
\* Violated: two requests for 'a' both pass "name in domain_cache" before
\* either writes; both return success and the second write replaces the
\* length of the first.
C24_CacheNamesUniqueByFirstWriter ==
    [][/\ \A t \in StoreThreads :
             (fn_call[t] # None /\ fn_call'[t] = None) =>
                 fn_call[t][1].name \notin DOMAIN domain_cache
       /\ \A n \in DOMAIN domain_cache \cap DOMAIN domain_cache' :
             domain_cache'[n] = domain_cache[n]]_vars

\* C25: after any sequence of add_domain, remove_cache_domain, add_strand and
\* delete_strand requests, every domain named by a stored strand (after
\* stripping the trailing complement marker) is present in domain_cache.
\* Violated: remove_cache_domain deletes a name that a stored strand uses.
C25_StoredStrandsNameCachedDomains ==
    \A sid \in DOMAIN strands :
        \A j \in 1..Len(strands[sid].domains) :
            RStrip(strands[sid].domains[j]) \in DOMAIN domain_cache

\* the step is a generate_strands request that found a strand to build
GenerateStep ==
    /\ fn_ret' # None
    /\ fn_ret'[1].op = "generate_strands"
    /\ fn_ret'[1].success

\* C26: generate_strands writes the built sequence and validation_results to
\* exactly the strand records whose ids were selected in the request and
\* could be built; every other record of the strands store is left
\* unchanged, also when several stored strands have the same name and domain
\* list.
\* Violated: with equal records under ids 1 and 2, the request for id 2
\* writes to record 1 and leaves record 2 as it was.
C26_GenerateWritesSelectedRecordsOnly ==
    [][GenerateStep =>
        LET cached == DOMAIN domain_cache
            drawn == {o[1] : o \in UNION {base_draws(b) : b \in cached} \ {None}}
        IN  /\ DOMAIN strands' = DOMAIN strands
            /\ \E d \in [cached -> drawn] :
                 /\ \A b \in cached : Some(d[b]) \in base_draws(b)
                 /\ \A sid \in DOMAIN strands :
                      IF /\ sid \in Range(fn_ret'[1].strand_ids)
                         /\ \A j \in 1..Len(strands[sid].domains) :
                               Assignable(cached, strands[sid].domains[j])
                      THEN /\ DOMAIN strands'[sid] =
                                 {"name", "domains", "sequence",
                                  "validation_results"}
                           /\ strands'[sid].name = strands[sid].name
                           /\ strands'[sid].domains = strands[sid].domains
                           /\ strands'[sid].sequence =
                                 Assembled(d, strands[sid].domains)
                      ELSE strands'[sid] = strands[sid]]_vars

----------------------------------------------------------------------------
(* Claims about calculate_strand_set_score (SpecScore)                     *)

\* C5: score.total of calculate_strand_set_score lies in [0, 100] for every
\* input, and every category of penalties is non-negative.
C5_TotalWithinZeroAndHundred ==
    score_ret # None =>
        /\ 0 <= score_ret[1].total /\ score_ret[1].total <= 100000
        /\ score_ret[1].penalties.thermodynamic_violations >= 0
        /\ score_ret[1].penalties.three_prime_imbalance >= 0
        /\ score_ret[1].penalties.cross_dimer_risks >= 0

\* the charge of C23 for one pair, in 0.001 points, from dg and threshold in
\* cal/mol
PairCharge(dg, threshold) ==
    IF dg < threshold THEN (threshold - dg) * 15
    ELSE IF dg < threshold + 2000 THEN (threshold + 2000 - dg) * 3
    ELSE 0

C5_Witness ==
    /\ score_ret # None
    /\ score_ret[1].penalties.total_penalty > 100000
    /\ score_ret[1].total = 0
    /\ score_call[1].cross_dimer_results # <<>>

=============================================================================
